---- MODULE Spec2Model ----
(***************************************************************************)
(* A model of the UCC bridge relayer back end:                             *)
(*   backend/src/process-deposit.js   on-demand deposit pipeline           *)
(*   unnamed/part_007                 on-demand withdrawal pipeline        *)
(*   backend/src/relayer.js           BridgeRelayer (watcher handlers)     *)
(*   unnamed/part_009                 StateManager (relayer-state.json)    *)
(*   unnamed/part_008                 HTTP server / process start          *)
(* One action is one run-to-completion step of the JavaScript code: the    *)
(* statements between two awaits.  The chains, the RPC nodes and the kill  *)
(* signal are the environment.                                             *)
(***************************************************************************)
EXTENDS Integers, Sequences, FiniteSets, TLC

(* ------------------------------------------------------------------ *)
(* Bounds of the model                                                *)
(* ------------------------------------------------------------------ *)

\* Invocations (HTTP triggers and watcher dispatches) started in one behaviour.
MaxCalls == 4

\* Highest block number a chain reaches.
MaxHead == 8

\* Largest gross amount of the contiguous range the fee computation is applied to.
MaxGross == 250

\* Entries the processed lists keep when they are trimmed.  The source keeps
\* 10000 (part_009 lines 70-71 and 82-83); the model keeps this many, so that
\* "more entries than the list keeps" is a case the model reaches.
KeepLast == 2

\* Invocations in flight at the same time.
MaxInFlight == 2

\* Restarts of the process in one behaviour.
MaxCrashes == 1

\* Invocations started in one behaviour of the whole-service specification.
GeneralCalls == 2

\* Invocations started in one behaviour of the duplicate-trigger and
\* watcher specifications.
DupCalls == 2

\* Invocations started in one behaviour of the confirmation-gate specification.
GateCalls == 1

\* Requests of a run that exercises the HTTP surface.
HttpCalls == 2

\* Invocations of a run that exercises the state file.
StoreCalls == 2

\* Errors in a row the BSC monitor loop is given.
MaxErrors == 3

\* Blocks the chain of the scanning monitor loop grows to.
ScanHead == 3

\* Logs in a receipt that is verified.
MaxLogs == 3

\* Rate-limit errors in a row.
MaxRotations == 7

\* Starts of the process after the first.
MaxRestarts == 2

\* Timestamps of the blocks the user calls of the contracts are mined in.
MaxTimestamp == 2

\* Admin calls the bridge contracts receive.
MaxAdminCalls == 3

(* ------------------------------------------------------------------ *)
(* Program constants                                                  *)
(* ------------------------------------------------------------------ *)

\* const requiredConfirmations = 6
requiredConfirmations == 6

\* feeAmount = originalAmount / 100n
FeeDivisor == 100

\* lastBscBlock: null, lastUcBlock: null, destTxHash = null
Null == -1

\* BridgeRelayer.bscRpcEndpoints.length.
RpcCount == 6

Chains == {"BSC", "UC"}

\* One StateManager is constructed by relayer.js (this.stateManager), one by
\* process-deposit.js and one by process-withdrawal.js (module level).
Components == {"relayer", "deposit", "withdrawal"}

OnDemandKinds == {"deposit", "withdrawal"}

WatcherKinds == {"watchDeposit", "watchBurn"}

(* ------------------------------------------------------------------ *)
(* The chains: mined source transactions and their receipts           *)
(* ------------------------------------------------------------------ *)

NoLog == [name |-> "undecodable", user |-> "", amount |-> 0, id |-> "", destinationAddress |-> ""]

DepositLog(user, amount, id, dest) ==
    [name |-> "Deposit", user |-> user, amount |-> amount, id |-> id, destinationAddress |-> dest]

BurnLog(user, amount, id, dest) ==
    [name |-> "Burn", user |-> user, amount |-> amount, id |-> id, destinationAddress |-> dest]

\* A log of another contract or event: parseLog throws or yields another name.
TransferLog == [name |-> "Transfer", user |-> "", amount |-> 0, id |-> "", destinationAddress |-> ""]

\* Source transactions that exist on BSC (deposits) and on UC (burns).
BscTxs == {"d1", "d2", "d3", "dRev", "dNoEv"}

UcTxs == {"b1", "b2", "b3", "bRev", "bNoEv"}

\* provider.getTransactionReceipt(txHash): null for an unknown hash.
ReceiptOf(chain, tx) ==
    CASE chain = "BSC" /\ tx = "d1" ->
            [found |-> TRUE, status |-> 1, blockNumber |-> 1,
             logs |-> <<TransferLog, DepositLog("u1", 100000000, "D1", "a1")>>]
      [] chain = "BSC" /\ tx = "d2" ->
            [found |-> TRUE, status |-> 1, blockNumber |-> 1,
             logs |-> <<NoLog, DepositLog("u2", 99, "D2", "a2")>>]
      [] chain = "BSC" /\ tx = "d3" ->
            [found |-> TRUE, status |-> 1, blockNumber |-> 2,
             logs |-> <<DepositLog("u1", 250, "D3", "a1")>>]
      [] chain = "BSC" /\ tx = "dRev" ->
            [found |-> TRUE, status |-> 0, blockNumber |-> 1, logs |-> <<>>]
      [] chain = "BSC" /\ tx = "dNoEv" ->
            [found |-> TRUE, status |-> 1, blockNumber |-> 1, logs |-> <<TransferLog>>]
      [] chain = "UC" /\ tx = "b1" ->
            [found |-> TRUE, status |-> 1, blockNumber |-> 1,
             logs |-> <<BurnLog("u1", 100000000, "B1", "r1")>>]
      [] chain = "UC" /\ tx = "b2" ->
            [found |-> TRUE, status |-> 1, blockNumber |-> 1,
             logs |-> <<TransferLog, BurnLog("u2", 101, "B2", "r2")>>]
      [] chain = "UC" /\ tx = "b3" ->
            [found |-> TRUE, status |-> 1, blockNumber |-> 2,
             logs |-> <<BurnLog("u1", 7, "B3", "r1")>>]
      [] chain = "UC" /\ tx = "bRev" ->
            [found |-> TRUE, status |-> 0, blockNumber |-> 1, logs |-> <<>>]
      [] chain = "UC" /\ tx = "bNoEv" ->
            [found |-> TRUE, status |-> 1, blockNumber |-> 1, logs |-> <<TransferLog>>]
      [] OTHER ->
            [found |-> FALSE, status |-> 0, blockNumber |-> 0, logs |-> <<>>]

\* The last log of the name instead of the first.
FindEventLast(logs, name) ==
    IF \E i \in DOMAIN logs : logs[i].name = name
    THEN logs[CHOOSE i \in DOMAIN logs :
                 /\ logs[i].name = name
                 /\ \A j \in DOMAIN logs : logs[j].name = name => j <= i]
    ELSE NoLog

\* receipt.logs.map(parseLog-or-null).find(e => e && e.name === name): a log
\* that parseLog throws on (NoLog) becomes null and is passed over; without
\* a match the result is undefined (NoLog).
RECURSIVE FindEvent(_, _)
FindEvent(logs, name) ==
    IF logs = <<>> THEN NoLog
    ELSE IF Head(logs).name = name THEN Head(logs)
    ELSE FindEvent(Tail(logs), name)

(* ------------------------------------------------------------------ *)
(* Per-path particulars                                               *)
(* ------------------------------------------------------------------ *)

SourceChain(kind) == IF kind \in {"deposit", "watchDeposit"} THEN "BSC" ELSE "UC"

EventName(kind) == IF kind \in {"deposit", "watchDeposit"} THEN "Deposit" ELSE "Burn"

DestFn(kind) == IF kind \in {"deposit", "watchDeposit"} THEN "mint" ELSE "unlock"

\* The StateManager instance a path reads and writes.
StoreOf(kind) ==
    CASE kind = "deposit" -> "deposit"
      [] kind = "withdrawal" -> "withdrawal"
      [] OTHER -> "relayer"

(* ------------------------------------------------------------------ *)
(* StateManager (part_009)                                            *)
(* ------------------------------------------------------------------ *)

\* The state object loadState creates when there is no state file.
FreshState ==
    [lastBscBlock |-> Null, lastUcBlock |-> Null,
     processedDeposits |-> <<>>, processedBurns |-> <<>>,
     transactionHashes |-> {}]

\* Array.prototype.includes
Includes(list, x) == \E i \in DOMAIN list : list[i] = x

\* Array.prototype.slice(-n): the last n elements, the whole array if shorter.
SliceLast(list, n) ==
    IF Len(list) <= n THEN list ELSE SubSeq(list, Len(list) - n + 1, Len(list))

\* loadState(): the parsed file when it exists and parses, a fresh state
\* otherwise (JSON.parse of a torn file throws, which loadState catches).
loadState(f) == IF f.exists /\ ~f.torn THEN f.data ELSE FreshState

\* saveState(): writeFileSync(STATE_FILE, JSON.stringify(this.state)).
saveState(st) == [exists |-> TRUE, torn |-> FALSE, data |-> st]

\* The file a writeFileSync that stopped part-way leaves: it was truncated
\* when it was opened and holds a prefix of the new document (data keeps the
\* last complete state for reference; no load returns it).
TornFile(f) == [exists |-> TRUE, torn |-> TRUE, data |-> f.data]

\* The outcomes of writeFileSync: the document was written; the call threw
\* before it wrote anything (EACCES, EROFS); it threw part-way (ENOSPC, EIO).
WriteOutcomes == {"ok", "failed", "partial"}

\* saveState() with its try/catch: an error of writeFileSync is logged and
\* saveState returns as usual.
Written(f, st, w) ==
    CASE w = "ok" -> saveState(st)
      [] w = "failed" -> f
      [] OTHER -> TornFile(f)

\* setLastBscBlock / setLastUcBlock: the state after the assignment.
setLastBscBlock(st, block) == [st EXCEPT !.lastBscBlock = block]

setLastUcBlock(st, block) == [st EXCEPT !.lastUcBlock = block]

\* A check that looks into the list of the other direction (not what the
\* source does).
isDepositProcessedInBurns(st, id) == Includes(st.processedBurns, id)

isDepositProcessed(st, id) == Includes(st.processedDeposits, id)

isBurnProcessed(st, id) == Includes(st.processedBurns, id)

\* addProcessedDeposit: the state after the push and the trim (the caller
\* saves only when the id was not included).
addProcessedDeposit(st, id) ==
    IF Includes(st.processedDeposits, id) THEN st
    ELSE [st EXCEPT !.processedDeposits = SliceLast(Append(@, id), KeepLast)]

addProcessedBurn(st, id) ==
    IF Includes(st.processedBurns, id) THEN st
    ELSE [st EXCEPT !.processedBurns = SliceLast(Append(@, id), KeepLast)]

\* this.state.transactionHashes[id] = {...}: one entry per key.
PutHashes(th, rec) == {r \in th : r.id # rec.id} \cup {rec}

\* A record that leaves the destination hash at its default, null (not what
\* the pipelines store: they pass the hash of the destination receipt).
addDepositTxHashesNoDest(st, id, bscTxHash, ucTxHash) ==
    [st EXCEPT !.transactionHashes =
        PutHashes(@, [id |-> id, type |-> "deposit", sourceTxHash |-> bscTxHash,
                      destTxHash |-> Null, sourceChain |-> "BSC", destChain |-> "UC"])]

addDepositTxHashes(st, id, bscTxHash, ucTxHash) ==
    [st EXCEPT !.transactionHashes =
        PutHashes(@, [id |-> id, type |-> "deposit", sourceTxHash |-> bscTxHash,
                      destTxHash |-> ucTxHash, sourceChain |-> "BSC", destChain |-> "UC"])]

addBurnTxHashes(st, id, ucTxHash, bscTxHash) ==
    [st EXCEPT !.transactionHashes =
        PutHashes(@, [id |-> id, type |-> "burn", sourceTxHash |-> ucTxHash,
                      destTxHash |-> bscTxHash, sourceChain |-> "UC", destChain |-> "BSC"])]

\* getTransactionHashes(id): the set holding the entry, empty for "null".
getTransactionHashes(st, id) == {r \in st.transactionHashes : r.id = id}

\* isProcessed of the direction a path works in.
IsProcessedIn(st, kind, id) ==
    IF EventName(kind) = "Deposit" THEN isDepositProcessed(st, id) ELSE isBurnProcessed(st, id)

\* markProcessed of the direction a path works in.
MarkProcessedIn(st, kind, id) ==
    IF EventName(kind) = "Deposit" THEN addProcessedDeposit(st, id) ELSE addProcessedBurn(st, id)

\* putTxHashes of the direction a path works in.
PutTxHashesIn(st, kind, id, srcHash, dstHash) ==
    IF EventName(kind) = "Deposit" THEN addDepositTxHashes(st, id, srcHash, dstHash)
    ELSE addBurnTxHashes(st, id, srcHash, dstHash)

(* ------------------------------------------------------------------ *)
(* Fee computation                                                    *)
(* ------------------------------------------------------------------ *)

\* A fee that rounds up instead of down (not what the source computes): the
\* fee of 99 units would be 1 and the net 98.
FeeRoundedUp(g) ==
    LET fee == (g \div FeeDivisor) + (IF g % FeeDivisor = 0 THEN 0 ELSE 1)
    IN [fee |-> fee, net |-> g - fee]

\* processDepositByTxHash: feeAmount = originalAmount / 100n; netAmount = originalAmount - feeAmount
FeeOnDemandDeposit(g) == [fee |-> g \div FeeDivisor, net |-> g - (g \div FeeDivisor)]

\* processWithdrawalByTxHash
FeeOnDemandWithdrawal(g) == [fee |-> g \div FeeDivisor, net |-> g - (g \div FeeDivisor)]

\* BridgeRelayer.handleBscDeposit
FeeWatcherDeposit(g) == [fee |-> g \div FeeDivisor, net |-> g - (g \div FeeDivisor)]

\* BridgeRelayer.handleUcBurn
FeeWatcherBurn(g) == [fee |-> g \div FeeDivisor, net |-> g - (g \div FeeDivisor)]

FeeOf(kind, g) ==
    CASE kind = "deposit" -> FeeOnDemandDeposit(g)
      [] kind = "withdrawal" -> FeeOnDemandWithdrawal(g)
      [] kind = "watchDeposit" -> FeeWatcherDeposit(g)
      [] OTHER -> FeeWatcherBurn(g)

(* ------------------------------------------------------------------ *)
(* The body of a POST request (index.js)                              *)
(* ------------------------------------------------------------------ *)

\* A body is its text cut into pieces: the characters that matter to the
\* handler ({ } : , " ' and the blank) and the words between them.  A word
\* of HexWords stands for a text that starts with 0x.
DQ == "\""

SQ == "'"

SP == " "

Structural == {"{", "}", ":", ",", DQ, SQ, SP}

HexWords == BscTxs \cup UcTxs \cup {"dNone", "bNone"}

RECURSIVE Concat(_)
Concat(seq) == IF seq = <<>> THEN "" ELSE Head(seq) \o Concat(Tail(seq))

RECURSIVE Without(_, _)
Without(seq, drop) ==
    IF seq = <<>> THEN <<>>
    ELSE IF Head(seq) \in drop THEN Without(Tail(seq), drop)
    ELSE <<Head(seq)>> \o Without(Tail(seq), drop)

\* String.prototype.trim
RECURSIVE Trim(_)
Trim(seq) ==
    IF seq = <<>> THEN <<>>
    ELSE IF Head(seq) = SP THEN Trim(Tail(seq))
    ELSE IF seq[Len(seq)] = SP THEN Trim(SubSeq(seq, 1, Len(seq) - 1))
    ELSE seq

\* "Force remove quotes if present": a body between two ' or two " loses them.
StripQuotes(seq) ==
    IF seq # <<>> /\ seq[1] \in {SQ, DQ} /\ seq[Len(seq)] = seq[1]
    THEN SubSeq(seq, 2, Len(seq) - 1)
    ELSE seq

\* JSON.parse(text) followed by .txHash, for the documents the bodies of
\* the model can form: an object with no member or with one member whose
\* value is a string or null, the document null, a string.  threw: JSON.parse
\* raised a SyntaxError, or the read of .txHash of null a TypeError.
ParsedTxHash(seq) ==
    LET t == Without(seq, {SP})
        word(x) == x \notin Structural
    IN IF t = <<"{", "}">> THEN [threw |-> FALSE, txHash |-> ""]
       ELSE IF /\ Len(t) = 9
               /\ <<t[1], t[2], t[4], t[5], t[6], t[8], t[9]>> = <<"{", DQ, DQ, ":", DQ, DQ, "}">>
               /\ word(t[3]) /\ word(t[7])
            THEN [threw |-> FALSE, txHash |-> IF t[3] = "txHash" THEN t[7] ELSE ""]
       ELSE IF /\ Len(t) = 8
               /\ <<t[1], t[2], t[4], t[5], t[6], t[7], t[8]>> = <<"{", DQ, DQ, ":", DQ, DQ, "}">>
               /\ word(t[3])
            THEN [threw |-> FALSE, txHash |-> ""]
       ELSE IF /\ Len(t) = 7
               /\ <<t[1], t[2], t[4], t[5], t[6], t[7]>> = <<"{", DQ, DQ, ":", "null", "}">>
               /\ word(t[3])
            THEN [threw |-> FALSE, txHash |-> ""]
       ELSE IF Len(t) = 3 /\ t[1] = DQ /\ t[3] = DQ /\ word(t[2])
            THEN [threw |-> FALSE, txHash |-> ""]
       ELSE [threw |-> TRUE, txHash |-> ""]

\* cleanBody.includes('txHash:') && cleanBody.includes('0x')
LooksLikeTxHash(seq) ==
    /\ \E i \in 1..(Len(seq) - 1) : seq[i] = "txHash" /\ seq[i + 1] = ":"
    /\ \E i \in DOMAIN seq : seq[i] \in HexWords

\* cleanBody.replace(/[{}]/g, '').split(':')[1].trim()
SecondPart(seq) ==
    LET w == Without(seq, {"{", "}"})
        colons == {i \in DOMAIN w : w[i] = ":"}
        first == CHOOSE i \in colons : \A j \in colons : i <= j
        later == {i \in colons : i > first}
        last == IF later = {} THEN Len(w) + 1
                ELSE CHOOSE i \in later : \A j \in later : i <= j
    IN Concat(Trim(SubSeq(w, first + 1, last - 1)))

\* A handler without the manual extraction (not what the source does): only
\* JSON is accepted.
ExtractTxHashStrict(body) ==
    LET cleanBody == StripQuotes(Trim(body)) IN
    IF ~ParsedTxHash(cleanBody).threw THEN ParsedTxHash(cleanBody).txHash ELSE ""

\* The transaction hash the POST handlers take from a body: "" when they find
\* none (txHash null, undefined or the empty string).
ExtractTxHash(body) ==
    LET cleanBody == StripQuotes(Trim(body)) IN
    IF ~ParsedTxHash(cleanBody).threw THEN ParsedTxHash(cleanBody).txHash
    ELSE IF LooksLikeTxHash(cleanBody) THEN SecondPart(cleanBody)
    ELSE ""

(* ------------------------------------------------------------------ *)
(* State                                                              *)
(* ------------------------------------------------------------------ *)

VARIABLES
    head,          \* [chain -> the block number getBlockNumber returns]
    file,          \* relayer-state.json: [exists, torn, data]
    sm,            \* [component -> this.state of its StateManager]
    relayerSets,   \* BridgeRelayer.processedDeposits / processedBurns (Sets)
    inv,           \* [serial -> one invocation of a pipeline or handler]
    started,       \* number of invocations started so far
    destCalls,     \* the mint / unlock calls submitted, in order
    epoch,         \* number of restarts of the process
    calc,          \* the last fee computation applied: [kind, gross, fee, net]
    watch,         \* BridgeRelayer: isRunning, the RPC pool, the monitor loops
    bridge,        \* the bridge contracts: processedMints, processedWithdrawals
    verified       \* the last receipt verification applied: [kind, receipt, err, event]

vars == <<head, file, sm, relayerSets, inv, started, destCalls, epoch, calc, watch, bridge, verified>>

\* The body of an invocation that no HTTP request started.
NoBody == <<"(none)">>

IdleInv ==
    [kind |-> "none", tx |-> "", pc |-> "idle", conf |-> 0, dest |-> 0,
     outcome |-> "none", err |-> "", epoch |-> 0, prior |-> FALSE, with |-> {},
     body |-> NoBody, ev |-> NoLog]

NoCalc == [kind |-> "none", gross |-> 0, fee |-> 0, net |-> 0]

InFlight == {n \in DOMAIN inv : inv[n].pc \notin {"idle", "done"}}

\* JavaScript runs a handler to its next await: while an invocation is between
\* its two consecutive synchronous saves, no other handler runs.
NoSyncSection == \A n \in DOMAIN inv : inv[n].pc # "record"

\* The event a path works on: the first matching log of the receipt.
EventOf(kind, tx) == FindEvent(ReceiptOf(SourceChain(kind), tx).logs, EventName(kind))

BlockOf(kind, tx) == ReceiptOf(SourceChain(kind), tx).blockNumber

\* The event object a block query or a listener delivered before a
\* reorganisation of the chain: the transaction is mined again in a block
\* of the same height with another timestamp, and the contracts derive the
\* depositId / burnId from block.timestamp.
StaleEvent(kind, tx) ==
    [EventOf(kind, tx) EXCEPT !.id = @ \o "x"]

\* The event objects a watcher hands to its handler for a transaction.
DeliveredEvents(kind, tx) == {EventOf(kind, tx), StaleEvent(kind, tx)}

\* The state of a monitor loop: pc is the await it stands at ("off" before
\* the method is called, "exited" after the while condition failed),
\* lastBlock is this.bscLastBlock / this.ucLastBlock, pending the events of
\* the block still to be handled, handler the invocation it awaits, wait the
\* milliseconds of the sleep it is in, caught the branch of the catch block
\* taken for the last error.
NewLoop(lastBlock) ==
    [pc |-> "off", lastBlock |-> lastBlock, consecutiveErrors |-> 0, blocksBehind |-> 0,
     pending |-> <<>>, handler |-> 0, wait |-> 0, caught |-> ""]

\* parseInt of the decimal strings START_BLOCK_BSC / START_BLOCK_UC are set
\* to here.
parseInt(str) ==
    CASE str = "-1" -> -1
      [] str = "0" -> 0
      [] str = "1" -> 1

\* BridgeRelayer after the constructor, initialize() and start(), with
\* START_BLOCK_BSC and START_BLOCK_UC set to startBlock: the starting block
\* of a chain is `saved || (startBlock === 'latest' ? head : parseInt(startBlock))`,
\* the saved cursor unless it is null or 0; start() sets isRunning and calls
\* no monitor method.  scanned is the history of the blocks whose scan was
\* completed, over all runs.
InitializedAt(st, hd, scanned, startBlock) ==
    [proc |-> "running",
     isRunning |-> TRUE,
     currentBscRpcIndex |-> 0,
     clients |-> [bscProvider |-> 0, bscWallet |-> 0, bscBridge |-> 0],
     loop |-> [c \in Chains |->
                 NewLoop(IF (IF c = "BSC" THEN st.lastBscBlock ELSE st.lastUcBlock) \in {Null, 0}
                         THEN (IF startBlock = "latest" THEN hd[c] ELSE parseInt(startBlock))
                         ELSE (IF c = "BSC" THEN st.lastBscBlock ELSE st.lastUcBlock))],
     scanned |-> scanned]

\* The same with the start blocks left at their default, 'latest'.
Initialized(st, hd, scanned) == InitializedAt(st, hd, scanned, "latest")

\* The process runs (it has not called process.exit).
Alive == watch.proc = "running"

\* The bridge contracts before any call: the guard mappings, the admin calls
\* accepted, block.timestamp of the block being built, and the Deposit and
\* Burn events emitted.
NoCallsYet ==
    [processedMints |-> {}, processedWithdrawals |-> {}, calls |-> <<>>,
     processedDeposits |-> {}, timestamp |-> 1, events |-> <<>>]

NoVerification == [kind |-> "none", found |-> FALSE, status |-> 0, logs |-> <<>>,
                   err |-> "", event |-> NoLog]

InitWith(heads) ==
    /\ head \in [Chains -> heads]
    /\ file = [exists |-> FALSE, torn |-> FALSE, data |-> FreshState]
    /\ sm = [c \in Components |-> loadState(file)]
    /\ relayerSets = [deposits |-> {}, burns |-> {}]
    /\ inv = [n \in 1..MaxCalls |-> IdleInv]
    /\ started = 0
    /\ destCalls = <<>>
    /\ epoch = 0
    /\ calc = NoCalc
    /\ watch = Initialized(FreshState, head, [c \in Chains |-> <<>>])
    /\ bridge = NoCallsYet
    /\ verified = NoVerification

Finish(n, outcome, err) ==
    [inv EXCEPT ![n].pc = "done", ![n].outcome = outcome, ![n].err = err]

\* The catch block of an on-demand pipeline.  process-deposit.js reads the
\* undeclared name `event` there, so the promise rejects (ReferenceError);
\* process-withdrawal.js returns {success: false, error}.
CatchOnDemand(n, err) ==
    IF inv[n].kind = "deposit" THEN Finish(n, "threw", err) ELSE Finish(n, "failed", err)

\* The catch block of a watcher handler logs and returns.
CatchWatcher(n, err) == Finish(n, "returned", err)

Catch(n, err) ==
    IF inv[n].kind \in OnDemandKinds THEN CatchOnDemand(n, err) ELSE CatchWatcher(n, err)

\* The answer the POST handler of index.js gives for an invocation that has
\* ended: 200 with the result when result.success, 400 with the result when
\* not, 500 {error: 'Internal server error'} when the pipeline's promise
\* rejected.  A killed invocation gets no answer (status 0).
HttpResponse(n) ==
    CASE inv[n].outcome = "success" ->
            [status |-> 200, success |-> "true", error |-> "", message |-> ""]
      [] inv[n].outcome = "already" ->
            [status |-> 400, success |-> "false", error |-> "", message |-> "already processed"]
      [] inv[n].outcome = "failed" ->
            [status |-> 400, success |-> "false", error |-> inv[n].err, message |-> ""]
      [] inv[n].outcome = "threw" ->
            [status |-> 500, success |-> "absent", error |-> "Internal server error", message |-> ""]
      [] inv[n].outcome = "rejected" ->
            [status |-> 400, success |-> "absent", error |-> "Transaction hash required", message |-> ""]
      [] OTHER ->
            [status |-> 0, success |-> "absent", error |-> "", message |-> ""]

\* GET /api/tx-hashes/{id}: the entry of the relayer's StateManager, 404
\* without one, 400 without an id.
GetTxHashes(id) ==
    IF id = "" THEN [status |-> 400, records |-> {}]
    ELSE IF getTransactionHashes(sm["relayer"], id) # {}
         THEN [status |-> 200, records |-> getTransactionHashes(sm["relayer"], id)]
    ELSE [status |-> 404, records |-> {}]

\* GET /api/tx-hashes: all entries of the relayer's StateManager.
GetAllTxHashes == [status |-> 200, records |-> sm["relayer"].transactionHashes]

(* ------------------------------------------------------------------ *)
(* Environment                                                        *)
(* ------------------------------------------------------------------ *)

\* A chain produces a block.
MineBlock(chain) ==
    /\ NoSyncSection
    /\ head[chain] < MaxHead
    /\ head' = [head EXCEPT ![chain] = @ + 1]
    /\ UNCHANGED <<file, sm, relayerSets, inv, started, destCalls, epoch, calc, watch, bridge, verified>>

\* The process is killed and started again with START_BLOCK_BSC and
\* START_BLOCK_UC set to startBlock (index: the module-level
\* StateManagers of process-deposit.js and process-withdrawal.js and the
\* relayer's are constructed from the file; BridgeRelayer.initialize fills its
\* Sets from its StateManager).  Invocations in flight are lost.
RestartAt(startBlock, maxRestarts) ==
    /\ epoch < maxRestarts
    /\ epoch' = epoch + 1
    /\ sm' = [c \in Components |-> loadState(file)]
    /\ relayerSets' =
          [deposits |-> {loadState(file).processedDeposits[i] :
                            i \in DOMAIN loadState(file).processedDeposits},
           burns |-> {loadState(file).processedBurns[i] :
                            i \in DOMAIN loadState(file).processedBurns}]
    /\ inv' = [n \in DOMAIN inv |->
                 IF n \in InFlight
                 THEN [inv[n] EXCEPT !.pc = "done", !.outcome = "killed", !.err = inv[n].pc]
                 ELSE inv[n]]
    /\ watch' = InitializedAt(loadState(file), head, watch.scanned, startBlock)
    /\ UNCHANGED <<head, file, started, destCalls, calc, bridge, verified>>

\* The same after some request was served, with the default start blocks.
CrashRestart(maxCrashes) ==
    /\ epoch < maxCrashes
    /\ started > 0
    /\ epoch' = epoch + 1
    /\ sm' = [c \in Components |-> loadState(file)]
    /\ relayerSets' =
          [deposits |-> {loadState(file).processedDeposits[i] :
                            i \in DOMAIN loadState(file).processedDeposits},
           burns |-> {loadState(file).processedBurns[i] :
                            i \in DOMAIN loadState(file).processedBurns}]
    /\ inv' = [n \in DOMAIN inv |->
                 IF n \in InFlight
                 THEN [inv[n] EXCEPT !.pc = "done", !.outcome = "killed", !.err = inv[n].pc]
                 ELSE inv[n]]
    /\ watch' = Initialized(loadState(file), head, watch.scanned)
    /\ UNCHANGED <<head, file, started, destCalls, calc, bridge, verified>>

(* ------------------------------------------------------------------ *)
(* Starting an invocation                                             *)
(* ------------------------------------------------------------------ *)

\* POST /api/process-deposit or /api/process-withdrawal with {txHash}: the
\* pipeline runs to its first await, getTransactionReceipt.
NewOnDemand(kind, tx) ==
    [IdleInv EXCEPT !.kind = kind, !.tx = tx, !.pc = "receipt",
       !.epoch = epoch, !.with = InFlight,
       !.prior = \E m \in DOMAIN inv :
                    /\ inv[m].kind = kind
                    /\ inv[m].tx = tx
                    /\ inv[m].epoch = epoch
                    /\ inv[m].outcome = "success"]

StartOnDemand(kind, tx, maxStarted, maxInFlight) ==
    /\ NoSyncSection
    /\ kind \in OnDemandKinds
    /\ started < maxStarted
    /\ Cardinality(InFlight) < maxInFlight
    /\ started' = started + 1
    /\ inv' = [inv EXCEPT ![started + 1] = NewOnDemand(kind, tx)]
    /\ UNCHANGED <<head, file, sm, relayerSets, destCalls, epoch, calc, watch, bridge, verified>>

\* The end of the body of POST /api/process-deposit or /api/process-withdrawal:
\* the handler takes the transaction hash from the body; without one it
\* answers 400 {error: 'Transaction hash required'}, with one it calls the
\* pipeline, which runs to its first await.
HttpPost(kind, body, maxStarted, maxInFlight) ==
    /\ NoSyncSection
    /\ kind \in OnDemandKinds
    /\ started < maxStarted
    /\ Cardinality(InFlight) < maxInFlight
    /\ started' = started + 1
    /\ inv' = [inv EXCEPT ![started + 1] =
                 IF ExtractTxHash(body) = ""
                 THEN [IdleInv EXCEPT !.kind = kind, !.pc = "done", !.outcome = "rejected",
                          !.epoch = epoch, !.body = body]
                 ELSE [NewOnDemand(kind, ExtractTxHash(body)) EXCEPT !.body = body]]
    /\ UNCHANGED <<head, file, sm, relayerSets, destCalls, epoch, calc, watch, bridge, verified>>

\* The monitor loop of a chain hands an event of the scanned block to
\* handleBscDeposit / handleUcBurn and awaits it: the handler checks its Set
\* and runs to its first await, getBlockNumber.  BridgeRelayer.start() of
\* this version launches neither monitor loop nor listener ("On-demand
\* processing only"): the action stands for a run of monitorBscDeposits,
\* monitorUcBurns or a listener of startWebSocketListeners, which are methods
\* of the exported class.
HandlerStart(kind, tx, ev) ==
    IF ev.id \in (IF kind = "watchDeposit" THEN relayerSets.deposits ELSE relayerSets.burns)
    THEN [IdleInv EXCEPT !.kind = kind, !.tx = tx, !.pc = "done",
             !.epoch = epoch, !.outcome = "already", !.ev = ev]
    ELSE [IdleInv EXCEPT !.kind = kind, !.tx = tx, !.pc = "poll1",
             !.epoch = epoch, !.with = InFlight, !.ev = ev]

\* The same for the event object ev that the block query or the listener
\* delivered for the transaction.
WatcherDispatchEv(kind, tx, ev, maxStarted, maxInFlight) ==
    /\ NoSyncSection
    /\ kind \in WatcherKinds
    /\ ev.name = EventName(kind)
    /\ started < maxStarted
    /\ Cardinality(InFlight) < maxInFlight
    /\ \A m \in InFlight : inv[m].kind # kind
    /\ started' = started + 1
    /\ inv' = [inv EXCEPT ![started + 1] = HandlerStart(kind, tx, ev)]
    /\ UNCHANGED <<head, file, sm, relayerSets, destCalls, epoch, calc, watch, bridge, verified>>

\* The event object is the log the transaction has on the chain now.
WatcherDispatch(kind, tx, maxStarted, maxInFlight) ==
    WatcherDispatchEv(kind, tx, EventOf(kind, tx), maxStarted, maxInFlight)

(* ------------------------------------------------------------------ *)
(* The steps of a pipeline                                            *)
(* ------------------------------------------------------------------ *)

\* The verification of a receipt: "" when it passes.  handleUcBurn does not
\* look at the logs.
VerifyReceipt(kind, r) ==
    IF ~r.found THEN "ReceiptNotFound"
    ELSE IF r.status # 1 THEN "TransactionReverted"
    ELSE IF kind = "watchBurn" THEN ""
    ELSE IF FindEvent(r.logs, EventName(kind)).name # EventName(kind) THEN "EventNotFound"
    ELSE ""

\* The verification of the receipt of a transaction.
VerifyError(kind, tx) == VerifyReceipt(kind, ReceiptOf(SourceChain(kind), tx))

\* The first steps of a pipeline applied to a receipt: the error it throws,
\* or the event it goes on with.
Verify(kind, r) ==
    /\ verified' = [kind |-> kind, found |-> r.found, status |-> r.status, logs |-> r.logs,
                    err |-> VerifyReceipt(kind, r),
                    event |-> IF VerifyReceipt(kind, r) = ""
                              THEN FindEvent(r.logs, EventName(kind)) ELSE NoLog]
    /\ UNCHANGED <<head, file, sm, relayerSets, inv, started, destCalls, epoch, calc, watch, bridge>>

\* The destination call a path makes for a source transaction: the on-demand
\* paths and handleBscDeposit take the arguments from the receipt's log,
\* handleUcBurn from the event it was handed.
DestCallOf(kind, tx, n, confirmations, ep) ==
    LET e == IF kind = "watchBurn" THEN inv[n].ev ELSE EventOf(kind, tx) IN
    [fn |-> DestFn(kind), to |-> e.destinationAddress, amount |-> FeeOf(kind, e.amount).net,
     id |-> e.id, by |-> n, kind |-> kind, conf |-> confirmations, epoch |-> ep]

\* After the confirmation gate: the on-demand paths call mint / unlock, the
\* watcher handlers fetch the receipt first.
AfterGate(kind) == IF kind \in OnDemandKinds THEN "mint" ELSE "receipt"

\* getTransactionReceipt returned.
\* On demand: verify, parse the event, check whether it is processed, then
\* ask for the block number.  Watcher: verify, re-extract, compute the fee and
\* call mint / unlock; handleBscDeposit returns when the depositId of the
\* receipt's log is not the one of the event it was handed.
ReceiptStep(n) ==
    /\ NoSyncSection
    /\ inv[n].pc = "receipt"
    /\ LET kind == inv[n].kind
           tx == inv[n].tx
           err == VerifyError(kind, tx) IN
       inv' = IF err # "" THEN
                  (IF kind \in OnDemandKinds THEN Catch(n, err) ELSE Finish(n, "returned", err))
              ELSE IF kind = "watchDeposit" /\ EventOf(kind, tx).id # inv[n].ev.id
                   THEN Finish(n, "returned", "DepositIdMismatch")
              ELSE IF kind \in WatcherKinds THEN [inv EXCEPT ![n].pc = "mint"]
              ELSE IF IsProcessedIn(sm[StoreOf(kind)], kind, EventOf(kind, tx).id)
                   THEN Finish(n, "already", "")
              ELSE [inv EXCEPT ![n].pc = "poll1"]
    /\ UNCHANGED <<head, file, sm, relayerSets, started, destCalls, epoch, calc, watch, bridge, verified>>

\* The first getBlockNumber returned: with fewer than requiredConfirmations
\* the path sleeps, otherwise it goes on.
PollStep(n) ==
    /\ NoSyncSection
    /\ inv[n].pc = "poll1"
    /\ LET confirmations == head[SourceChain(inv[n].kind)] - BlockOf(inv[n].kind, inv[n].tx) IN
       inv' = [inv EXCEPT ![n].conf = confirmations,
                          ![n].pc = IF confirmations < requiredConfirmations
                                    THEN "sleep" ELSE AfterGate(inv[n].kind)]
    /\ UNCHANGED <<head, file, sm, relayerSets, started, destCalls, epoch, calc, watch, bridge, verified>>

\* The sleep ended and the second getBlockNumber returned: the path goes on
\* with the confirmations it then has.
SleepStep(n) ==
    /\ NoSyncSection
    /\ inv[n].pc = "sleep"
    /\ inv' = [inv EXCEPT
                 ![n].conf = head[SourceChain(inv[n].kind)] - BlockOf(inv[n].kind, inv[n].tx),
                 ![n].pc = AfterGate(inv[n].kind)]
    /\ UNCHANGED <<head, file, sm, relayerSets, started, destCalls, epoch, calc, watch, bridge, verified>>

\* ucBridge.mint(...) / bscBridge.unlock(...) resolved: the transaction was
\* submitted (ok), or the call threw before anything was sent.
MintStep(n, ok) ==
    /\ NoSyncSection
    /\ inv[n].pc = "mint"
    /\ IF ok
       THEN /\ destCalls' = Append(destCalls,
                      DestCallOf(inv[n].kind, inv[n].tx, n, inv[n].conf, epoch))
            /\ inv' = [inv EXCEPT ![n].pc = "wait", ![n].dest = Len(destCalls) + 1]
       ELSE /\ inv' = Catch(n, "DestinationCallFailed")
            /\ UNCHANGED destCalls
    /\ UNCHANGED <<head, file, sm, relayerSets, started, epoch, calc, watch, bridge, verified>>

\* tx.wait() resolved with the destination receipt (ok): the event is marked
\* processed (the watcher also adds it to its Set) and the state saved when
\* the id was not in the list; or tx.wait() threw.
WaitStepW(n, ok, w) ==
    /\ NoSyncSection
    /\ inv[n].pc = "wait"
    /\ IF ok
       THEN LET kind == inv[n].kind
                c == StoreOf(kind)
                id == destCalls[inv[n].dest].id
                st == MarkProcessedIn(sm[c], kind, id) IN
            /\ inv' = [inv EXCEPT ![n].pc = "record"]
            /\ sm' = [sm EXCEPT ![c] = st]
            /\ file' = IF st # sm[c] THEN Written(file, st, w) ELSE file
            /\ relayerSets' =
                 CASE kind = "watchDeposit" -> [relayerSets EXCEPT !.deposits = @ \cup {id}]
                   [] kind = "watchBurn" -> [relayerSets EXCEPT !.burns = @ \cup {id}]
                   [] OTHER -> relayerSets
       ELSE /\ inv' = Catch(n, "DestinationTxFailed")
            /\ UNCHANGED <<file, sm, relayerSets>>
    /\ UNCHANGED <<head, started, destCalls, epoch, calc, watch, bridge, verified>>

\* The same with a disk that takes every write.
WaitStep(n, ok) == WaitStepW(n, ok, "ok")

\* The statement after the mark: the tx hashes are stored, the state saved,
\* and the path returns its success result.
RecordStepW(n, w) ==
    /\ inv[n].pc = "record"
    /\ LET kind == inv[n].kind
           c == StoreOf(kind)
           st == PutTxHashesIn(sm[c], kind, destCalls[inv[n].dest].id, inv[n].tx, inv[n].dest) IN
       /\ sm' = [sm EXCEPT ![c] = st]
       /\ file' = Written(file, st, w)
       /\ inv' = Finish(n, IF kind \in OnDemandKinds THEN "success" ELSE "returned", "")
    /\ UNCHANGED <<head, relayerSets, started, destCalls, epoch, calc, watch, bridge, verified>>

\* The same with a disk that takes every write.
RecordStep(n) == RecordStepW(n, "ok")

\* The process dies inside the writeFileSync of a save (the one of the mark
\* once tx.wait() has resolved, or the one of the record) and is started
\* again: the file is left torn, and every StateManager is constructed from
\* it.  (A death before the file is opened or after it is written is
\* CrashRestart before or after the step.)
CrashInSave(n, maxCrashes) ==
    /\ epoch < maxCrashes
    /\ \/ inv[n].pc = "record"
       \/ /\ inv[n].pc = "wait"
          /\ NoSyncSection
          /\ ~IsProcessedIn(sm[StoreOf(inv[n].kind)], inv[n].kind, destCalls[inv[n].dest].id)
    /\ file' = TornFile(file)
    /\ epoch' = epoch + 1
    /\ sm' = [c \in Components |-> loadState(TornFile(file))]
    /\ relayerSets' = [deposits |-> {}, burns |-> {}]
    /\ inv' = [m \in DOMAIN inv |->
                 IF m \in InFlight
                 THEN [inv[m] EXCEPT !.pc = "done", !.outcome = "killed", !.err = inv[m].pc]
                 ELSE inv[m]]
    /\ watch' = Initialized(loadState(TornFile(file)), head, watch.scanned)
    /\ UNCHANGED <<head, started, destCalls, calc, bridge, verified>>

\* The block the monitor loop of a chain has scanned last, as the relayer's
\* StateManager holds it.
LastBlockOf(st, chain) == IF chain = "BSC" THEN st.lastBscBlock ELSE st.lastUcBlock

\* One pass of monitorBscDeposits / monitorUcBurns over the next block, once
\* its handlers have returned: the cursor moves to the block and is saved.
\* Without a saved cursor (null or 0) the scan starts after the configured
\* start block (START_BLOCK_BSC / START_BLOCK_UC, or the head at start).
MonitorStep(chain, start, w) ==
    /\ NoSyncSection
    /\ \A m \in InFlight : inv[m].kind \notin WatcherKinds \/ SourceChain(inv[m].kind) # chain
    /\ LET saved == LastBlockOf(sm["relayer"], chain)
           lastBlock == IF saved = Null \/ saved = 0 THEN start ELSE saved
           toBlock == lastBlock + 1
           st == IF chain = "BSC" THEN setLastBscBlock(sm["relayer"], toBlock)
                 ELSE setLastUcBlock(sm["relayer"], toBlock)
       IN /\ head[chain] > lastBlock
          /\ sm' = [sm EXCEPT !["relayer"] = st]
          /\ file' = Written(file, st, w)
    /\ UNCHANGED <<head, relayerSets, inv, started, destCalls, epoch, calc, watch, bridge, verified>>

(* ------------------------------------------------------------------ *)
(* The bridge contracts' admin calls                                  *)
(* ------------------------------------------------------------------ *)

\* address(0).
ZeroAddress == "0x0"

\* keccak256(abi.encodePacked(user, amount, id)) of three fixed-width
\* values: one value per triple.
PackedId(user, amount, id) == <<user, amount, id>>

\* USDTBridgeUniverse.mint(user, amount, depositId), sent by the owner while
\* the contract is not paused.  A call that fails a require reverts and
\* leaves the contract as it was.
mint(user, amount, depositId, maxCalls) ==
    /\ Len(bridge.calls) < maxCalls
    /\ amount > 0
    /\ user # ZeroAddress
    /\ PackedId(user, amount, depositId) \notin bridge.processedMints
    /\ bridge' = [bridge EXCEPT
                    !.processedMints = @ \cup {PackedId(user, amount, depositId)},
                    !.calls = Append(@, [fn |-> "mint", user |-> user, amount |-> amount,
                                         id |-> depositId])]
    /\ UNCHANGED <<head, file, sm, relayerSets, inv, started, destCalls, epoch, calc, watch, verified>>

\* USDTBridgeBSC.unlock(user, amount, burnId), sent by the owner while the
\* contract is not paused and holds the amount.
unlock(user, amount, burnId, maxCalls) ==
    /\ Len(bridge.calls) < maxCalls
    /\ amount > 0
    /\ user # ZeroAddress
    /\ PackedId(user, amount, burnId) \notin bridge.processedWithdrawals
    /\ bridge' = [bridge EXCEPT
                    !.processedWithdrawals = @ \cup {PackedId(user, amount, burnId)},
                    !.calls = Append(@, [fn |-> "unlock", user |-> user, amount |-> amount,
                                         id |-> burnId])]
    /\ UNCHANGED <<head, file, sm, relayerSets, inv, started, destCalls, epoch, calc, watch, verified>>

\* keccak256(abi.encodePacked(msg.sender, amount, block.timestamp,
\* destinationAddress)): one value per quadruple (three fixed-width values
\* and one string at the end).
SourceId(sender, amount, timestamp, destinationAddress) ==
    <<sender, amount, timestamp, destinationAddress>>

\* The chain goes on to a block with a later timestamp.
NextBlock(maxTimestamp) ==
    /\ bridge.timestamp < maxTimestamp
    /\ bridge' = [bridge EXCEPT !.timestamp = @ + 1]
    /\ UNCHANGED <<head, file, sm, relayerSets, inv, started, destCalls, epoch, calc, watch, verified>>

\* USDTBridgeBSC.deposit(amount, destinationAddress) sent by an account that
\* holds and has approved the amount: the id is checked against
\* processedDeposits and entered there.
deposit(sender, amount, destinationAddress, maxCalls) ==
    /\ Len(bridge.events) < maxCalls
    /\ amount > 0
    /\ destinationAddress # ""
    /\ SourceId(sender, amount, bridge.timestamp, destinationAddress) \notin bridge.processedDeposits
    /\ bridge' = [bridge EXCEPT
                    !.processedDeposits =
                        @ \cup {SourceId(sender, amount, bridge.timestamp, destinationAddress)},
                    !.events = Append(@, [name |-> "Deposit", user |-> sender, amount |-> amount,
                                          id |-> SourceId(sender, amount, bridge.timestamp,
                                                          destinationAddress),
                                          destinationAddress |-> destinationAddress])]
    /\ UNCHANGED <<head, file, sm, relayerSets, inv, started, destCalls, epoch, calc, watch, verified>>

\* USDTBridgeUniverse.withdraw(amount, destinationAddress) sent by an account
\* that holds and has approved the amount: the id is computed and emitted,
\* and checked against nothing.
withdraw(sender, amount, destinationAddress, maxCalls) ==
    /\ Len(bridge.events) < maxCalls
    /\ amount > 0
    /\ destinationAddress # ""
    /\ bridge' = [bridge EXCEPT
                    !.events = Append(@, [name |-> "Burn", user |-> sender, amount |-> amount,
                                          id |-> SourceId(sender, amount, bridge.timestamp,
                                                          destinationAddress),
                                          destinationAddress |-> destinationAddress])]
    /\ UNCHANGED <<head, file, sm, relayerSets, inv, started, destCalls, epoch, calc, watch, verified>>

(* ------------------------------------------------------------------ *)
(* Stopping                                                           *)
(* ------------------------------------------------------------------ *)

\* BridgeRelayer.stop(): the flag is cleared and the listeners removed.
stop ==
    /\ NoSyncSection
    /\ Alive
    /\ watch.isRunning
    /\ watch' = [watch EXCEPT !.isRunning = FALSE]
    /\ UNCHANGED <<head, file, sm, relayerSets, inv, started, destCalls, epoch, calc, bridge, verified>>

\* SIGINT / SIGTERM: the handler closes the server, calls relayer.stop() and
\* then process.exit(0), with no await in between: whatever is in flight
\* ends where it stands.
shutdown ==
    /\ NoSyncSection
    /\ Alive
    /\ watch' = [watch EXCEPT !.isRunning = FALSE, !.proc = "exited"]
    /\ inv' = [n \in DOMAIN inv |->
                 IF n \in InFlight
                 THEN [inv[n] EXCEPT !.pc = "done", !.outcome = "killed", !.err = inv[n].pc]
                 ELSE inv[n]]
    /\ UNCHANGED <<head, file, sm, relayerSets, started, destCalls, epoch, calc, bridge, verified>>

(* ------------------------------------------------------------------ *)
(* The monitor loops (relayer.js: monitorBscDeposits, monitorUcBurns) *)
(* ------------------------------------------------------------------ *)

\* An error message, as the set of the substrings it contains among those
\* the catch blocks search for.
ErrorMessages ==
    {{"rate limit"}, {"429"}, {"missing response"}, {"timeout"}, {"network"}, {}}

\* error.message.includes(sub)
includes(message, sub) == sub \in message

\* The first branch of the catch block: the UC loop does not look for
\* 'missing response'.
IsRateLimit(chain, message) ==
    IF chain = "BSC"
    THEN includes(message, "rate limit") \/ includes(message, "429")
            \/ includes(message, "missing response")
    ELSE includes(message, "rate limit") \/ includes(message, "429")

\* The second branch.
IsNetwork(message) == includes(message, "timeout") \/ includes(message, "network")

Min(a, b) == IF a < b THEN a ELSE b

\* Math.min(5000 * Math.pow(2, consecutiveErrors - 1), 60000)
waitTime(consecutiveErrors) == Min(5000 * 2^(consecutiveErrors - 1), 60000)

\* The sleep of a loop that has caught up: 5000 ms on BSC, 1000 ms on UC.
PollInterval(chain) == IF chain = "BSC" THEN 5000 ELSE 1000

\* The sleep of the catch block.
ErrorWait(chain, message, consecutiveErrors) ==
    IF chain = "BSC"
    THEN (IF IsRateLimit(chain, message) THEN waitTime(consecutiveErrors)
          ELSE IF IsNetwork(message) THEN 10000 ELSE 15000)
    ELSE (IF IsRateLimit(chain, message) THEN 10000
          ELSE IF IsNetwork(message) THEN 2000 ELSE 5000)

CaughtAs(chain, message) ==
    IF IsRateLimit(chain, message) THEN "rateLimit"
    ELSE IF IsNetwork(message) THEN "network" ELSE "other"

WatcherKindOf(chain) == IF chain = "BSC" THEN "watchDeposit" ELSE "watchBurn"

\* The transactions of a chain in the order they were mined.
ChainOrder(chain) ==
    IF chain = "BSC" THEN <<"d1", "d2", "d3", "dRev", "dNoEv">>
    ELSE <<"b1", "b2", "b3", "bRev", "bNoEv">>

HasEventIn(chain, tx, block) ==
    /\ ReceiptOf(chain, tx).status = 1
    /\ ReceiptOf(chain, tx).blockNumber = block
    /\ EventOf(WatcherKindOf(chain), tx).name = EventName(WatcherKindOf(chain))

\* bridge.queryFilter(filter, toBlock, toBlock): the transactions whose
\* Deposit / Burn event is in the block.
RECURSIVE queryFilter(_, _, _)
queryFilter(chain, txs, block) ==
    IF txs = <<>> THEN <<>>
    ELSE IF HasEventIn(chain, Head(txs), block)
         THEN <<Head(txs)>> \o queryFilter(chain, Tail(txs), block)
    ELSE queryFilter(chain, Tail(txs), block)

\* A loop top that does not read the flag: while (true).
LoopTopNoCheck(l) ==
    [l EXCEPT !.pc = "head",
              !.blocksBehind = 0, !.pending = <<>>, !.handler = 0, !.wait = 0]

\* while (this.isRunning): the loop calls getBlockNumber and awaits it, or
\* ends.
LoopTop(l) ==
    [l EXCEPT !.pc = IF watch.isRunning THEN "head" ELSE "exited",
              !.blocksBehind = 0, !.pending = <<>>, !.handler = 0, !.wait = 0]

\* The clients of the BSC endpoint that is not rotated: the catch block of
\* this variant moves the index and replaces the provider only.
RotatedProviderOnly(w) ==
    [w EXCEPT !.currentBscRpcIndex = (@ + 1) % RpcCount,
              !.clients.bscProvider = (w.currentBscRpcIndex + 1) % RpcCount]

\* this.bscRpcEndpoints
bscRpcEndpoints ==
    <<"bsc-dataseed1.binance.org", "bsc-dataseed2.binance.org", "bsc-dataseed3.binance.org",
      "bsc-dataseed4.binance.org", "bsc.publicnode.com", "bsc-rpc.publicnode.com">>

\* this.bscRpcEndpoints[i], for the zero-based index of the code.
EndpointAt(i) == bscRpcEndpoints[i + 1]

\* A rotation that passes over one endpoint.
getNextBscRpcSkip(w) ==
    LET i == (w.currentBscRpcIndex + 2) % Len(bscRpcEndpoints)
    IN [w |-> [w EXCEPT !.currentBscRpcIndex = i], rpc |-> EndpointAt(i)]

\* getNextBscRpc(): the relayer with the index moved on, and the endpoint
\* returned.
getNextBscRpc(w) ==
    LET i == (w.currentBscRpcIndex + 1) % Len(bscRpcEndpoints)
    IN [w |-> [w EXCEPT !.currentBscRpcIndex = i], rpc |-> EndpointAt(i)]

\* createBscProvider(): a provider for the endpoint at the current index; a
\* client is written as the position of the endpoint it is connected to.
createBscProvider(w) == w.currentBscRpcIndex

\* getNextBscRpc(), then the provider, the wallet and the bridge contract
\* are created anew on the endpoint of the new index.
Rotated(w) ==
    LET next == getNextBscRpc(w).w
    IN [next EXCEPT !.clients = [k \in DOMAIN w.clients |-> createBscProvider(next)]]

\* The catch block of a loop: the BSC loop counts the error and rotates on a
\* rate limit; both loops sleep and go on.
Caught(chain, message) ==
    LET l == watch.loop[chain]
        ce == IF chain = "BSC" THEN l.consecutiveErrors + 1 ELSE l.consecutiveErrors
        w == IF chain = "BSC" /\ IsRateLimit(chain, message) THEN Rotated(watch) ELSE watch
    IN [w EXCEPT !.loop[chain] =
           [l EXCEPT !.pc = "sleep", !.consecutiveErrors = ce,
                     !.wait = ErrorWait(chain, message, ce),
                     !.caught = CaughtAs(chain, message),
                     !.blocksBehind = 0]]

\* monitorBscDeposits() / monitorUcBurns() is called: the loop runs to its
\* first await.  Nothing in this version calls them (see Initialized).
LaunchMonitor(chain) ==
    /\ NoSyncSection
    /\ Alive
    /\ watch.loop[chain].pc = "off"
    /\ watch' = [watch EXCEPT !.loop[chain] = LoopTop(@)]
    /\ UNCHANGED <<head, file, sm, relayerSets, inv, started, destCalls, epoch, calc, bridge, verified>>

\* getBlockNumber returned: the loop queries block lastBlock + 1 when the
\* head is ahead, and sleeps otherwise: the iteration ends without an error
\* (caught is cleared) and with consecutiveErrors as it was.
HeadStep(chain) ==
    /\ NoSyncSection
    /\ Alive
    /\ watch.loop[chain].pc = "head"
    /\ LET l == watch.loop[chain] IN
       watch' = [watch EXCEPT !.loop[chain] =
                    IF head[chain] > l.lastBlock
                    THEN [l EXCEPT !.pc = "query", !.blocksBehind = head[chain] - l.lastBlock]
                    ELSE [l EXCEPT !.pc = "sleep", !.wait = PollInterval(chain),
                                   !.caught = ""]]
    /\ UNCHANGED <<head, file, sm, relayerSets, inv, started, destCalls, epoch, calc, bridge, verified>>

\* getBlockNumber threw.
HeadFails(chain, message, maxErrors) ==
    /\ NoSyncSection
    /\ Alive
    /\ watch.loop[chain].pc = "head"
    /\ watch.loop[chain].consecutiveErrors < maxErrors
    /\ watch' = Caught(chain, message)
    /\ UNCHANGED <<head, file, sm, relayerSets, inv, started, destCalls, epoch, calc, bridge, verified>>

\* queryFilter threw.
QueryFails(chain, message, maxErrors) ==
    /\ NoSyncSection
    /\ Alive
    /\ watch.loop[chain].pc = "query"
    /\ watch.loop[chain].consecutiveErrors < maxErrors
    /\ watch' = Caught(chain, message)
    /\ UNCHANGED <<head, file, sm, relayerSets, inv, started, destCalls, epoch, calc, bridge, verified>>

\* The end of an iteration that scanned block lastBlock + 1: the cursor is
\* set and saved, the error count cleared, and the loop sleeps when it was at
\* most one block behind, or goes to its next iteration at once.
AdvanceCursor(chain, w) ==
    LET l == watch.loop[chain]
        toBlock == l.lastBlock + 1
        st == IF chain = "BSC" THEN setLastBscBlock(sm["relayer"], toBlock)
              ELSE setLastUcBlock(sm["relayer"], toBlock)
        done == [l EXCEPT !.lastBlock = toBlock, !.consecutiveErrors = 0, !.caught = ""]
    IN /\ sm' = [sm EXCEPT !["relayer"] = st]
       /\ file' = Written(file, st, w)
       /\ watch' = [watch EXCEPT
                      !.scanned[chain] = Append(@, toBlock),
                      !.loop[chain] =
                          IF l.blocksBehind <= 1
                          THEN [done EXCEPT !.pc = "sleep", !.wait = PollInterval(chain),
                                            !.pending = <<>>, !.handler = 0]
                          ELSE LoopTop(done)]

\* The loop hands the first of the events to its handler and awaits it.
HandNext(chain, events) ==
    /\ started < MaxCalls
    /\ started' = started + 1
    /\ inv' = [inv EXCEPT ![started + 1] =
                 HandlerStart(WatcherKindOf(chain), Head(events),
                              EventOf(WatcherKindOf(chain), Head(events)))]
    /\ watch' = [watch EXCEPT !.loop[chain].pc = "handle",
                              !.loop[chain].handler = started + 1,
                              !.loop[chain].pending = Tail(events)]

\* queryFilter returned the events of block lastBlock + 1.
QueryStep(chain, w) ==
    /\ NoSyncSection
    /\ Alive
    /\ watch.loop[chain].pc = "query"
    /\ LET events == queryFilter(chain, ChainOrder(chain), watch.loop[chain].lastBlock + 1) IN
       IF events = <<>>
       THEN AdvanceCursor(chain, w) /\ UNCHANGED <<inv, started>>
       ELSE HandNext(chain, events) /\ UNCHANGED <<file, sm>>
    /\ UNCHANGED <<head, relayerSets, destCalls, epoch, calc, bridge, verified>>

\* The handler the loop awaits has returned: the next event of the block
\* is handed over, or the iteration ends.
HandlerReturned(chain, w) ==
    /\ NoSyncSection
    /\ Alive
    /\ watch.loop[chain].pc = "handle"
    /\ inv[watch.loop[chain].handler].pc = "done"
    /\ IF watch.loop[chain].pending = <<>>
       THEN AdvanceCursor(chain, w) /\ UNCHANGED <<inv, started>>
       ELSE HandNext(chain, watch.loop[chain].pending) /\ UNCHANGED <<file, sm>>
    /\ UNCHANGED <<head, relayerSets, destCalls, epoch, calc, bridge, verified>>

\* The sleep of a loop ended.
SleepDone(chain) ==
    /\ NoSyncSection
    /\ Alive
    /\ watch.loop[chain].pc = "sleep"
    /\ watch' = [watch EXCEPT !.loop[chain] = LoopTop(@)]
    /\ UNCHANGED <<head, file, sm, relayerSets, inv, started, destCalls, epoch, calc, bridge, verified>>

(* ------------------------------------------------------------------ *)
(* Specifications                                                     *)
(* ------------------------------------------------------------------ *)

\* The transaction hashes the triggers of a direction carry.
TxsOf(kind) == IF SourceChain(kind) = "BSC" THEN BscTxs ELSE UcTxs

\* The whole service: HTTP triggers of both directions, watcher handlers of
\* both chains, two invocations at a time, one restart, failing destination
\* calls, chains that grow.
Init == InitWith({MaxHead - 2})

Next ==
    \/ \E c \in Chains : MineBlock(c)
    \/ CrashRestart(MaxCrashes)
    \/ \E k \in OnDemandKinds : \E tx \in {"d1", "dRev", "b1"} \cap TxsOf(k) :
          StartOnDemand(k, tx, GeneralCalls, MaxInFlight)
    \/ \E k \in WatcherKinds : \E tx \in {"d1", "b1"} \cap TxsOf(k) :
          WatcherDispatch(k, tx, GeneralCalls, MaxInFlight)
    \/ \E n \in DOMAIN inv : ReceiptStep(n)
    \/ \E n \in DOMAIN inv : PollStep(n)
    \/ \E n \in DOMAIN inv : SleepStep(n)
    \/ \E n \in DOMAIN inv : \E ok \in BOOLEAN : MintStep(n, ok)
    \/ \E n \in DOMAIN inv : \E ok \in BOOLEAN : WaitStep(n, ok)
    \/ \E n \in DOMAIN inv : RecordStep(n)

Spec == Init /\ [][Next]_vars

\* Invocations one after the other (a trigger or a watcher dispatch starts
\* only when nothing is in flight), with a restart at any point.
InitSeq == InitWith({MaxHead - 1})

NextSeq ==
    \/ MineBlock("BSC")
    \/ CrashRestart(MaxCrashes)
    \/ \E k \in OnDemandKinds : \E tx \in {"d1", "d2", "d3", "b1"} \cap TxsOf(k) :
          StartOnDemand(k, tx, MaxCalls, 1)
    \/ \E k \in WatcherKinds : \E tx \in {"d1", "b1"} \cap TxsOf(k) :
          WatcherDispatch(k, tx, MaxCalls, 1)
    \/ \E n \in DOMAIN inv : ReceiptStep(n)
    \/ \E n \in DOMAIN inv : PollStep(n)
    \/ \E n \in DOMAIN inv : SleepStep(n)
    \/ \E n \in DOMAIN inv : MintStep(n, TRUE)
    \/ \E n \in DOMAIN inv : WaitStep(n, TRUE)
    \/ \E n \in DOMAIN inv : RecordStep(n)

SpecSeq == InitSeq /\ [][NextSeq]_vars

\* Duplicate triggers: HTTP requests of both directions handled concurrently.
InitDup == InitWith({MaxHead - 2, MaxHead})

NextDup ==
    \/ \E k \in OnDemandKinds : \E tx \in {"d1", "d2", "b1"} \cap TxsOf(k) :
          StartOnDemand(k, tx, DupCalls, MaxInFlight)
    \/ \E n \in DOMAIN inv : ReceiptStep(n)
    \/ \E n \in DOMAIN inv : PollStep(n)
    \/ \E n \in DOMAIN inv : SleepStep(n)
    \/ \E n \in DOMAIN inv : \E ok \in BOOLEAN : MintStep(n, ok)
    \/ \E n \in DOMAIN inv : \E ok \in BOOLEAN : WaitStep(n, ok)
    \/ \E n \in DOMAIN inv : RecordStep(n)

SpecDup == InitDup /\ [][NextDup]_vars

\* The watcher and the HTTP triggers of one process lifetime.
InitWatch == InitWith({MaxHead - 2, MaxHead})

NextWatch ==
    \/ \E k \in OnDemandKinds : \E tx \in {"d1", "b1"} \cap TxsOf(k) :
          StartOnDemand(k, tx, DupCalls, MaxInFlight)
    \/ \E k \in WatcherKinds : \E tx \in {"d1", "b1"} \cap TxsOf(k) :
          WatcherDispatch(k, tx, DupCalls, MaxInFlight)
    \/ \E n \in DOMAIN inv : ReceiptStep(n)
    \/ \E n \in DOMAIN inv : PollStep(n)
    \/ \E n \in DOMAIN inv : SleepStep(n)
    \/ \E n \in DOMAIN inv : \E ok \in BOOLEAN : MintStep(n, ok)
    \/ \E n \in DOMAIN inv : \E ok \in BOOLEAN : WaitStep(n, ok)
    \/ \E n \in DOMAIN inv : RecordStep(n)

SpecWatch == InitWatch /\ [][NextWatch]_vars

\* The confirmation gate: one invocation at a time on chains that grow from
\* the block of the event.
InitGate == InitWith({2})

NextGate ==
    \/ \E c \in Chains : MineBlock(c)
    \/ \E k \in OnDemandKinds : \E tx \in {"d1", "d3", "b1"} \cap TxsOf(k) :
          StartOnDemand(k, tx, GateCalls, 1)
    \/ \E k \in WatcherKinds : \E tx \in {"d1", "b3"} \cap TxsOf(k) :
          WatcherDispatch(k, tx, GateCalls, 1)
    \/ \E n \in DOMAIN inv : ReceiptStep(n)
    \/ \E n \in DOMAIN inv : PollStep(n)
    \/ \E n \in DOMAIN inv : SleepStep(n)
    \/ \E n \in DOMAIN inv : MintStep(n, TRUE)
    \/ \E n \in DOMAIN inv : WaitStep(n, TRUE)
    \/ \E n \in DOMAIN inv : RecordStep(n)

SpecGate == InitGate /\ [][NextGate]_vars

\* The fee computation of each path applied to gross amounts: every amount up
\* to MaxGross, the amounts around multiples of the divisor, and large ones.
GrossAmounts ==
    (0..MaxGross) \cup {999, 1000, 1001, 99999999, 100000000, 100000001, 2147483646, 2147483647}

ApplyFee(kind, g) ==
    /\ calc' = [kind |-> kind, gross |-> g, fee |-> FeeOf(kind, g).fee, net |-> FeeOf(kind, g).net]
    /\ UNCHANGED <<head, file, sm, relayerSets, inv, started, destCalls, epoch, watch, bridge, verified>>

InitFee == InitWith({MaxHead})

NextFee == \E kind \in OnDemandKinds \cup WatcherKinds : \E g \in GrossAmounts : ApplyFee(kind, g)

SpecFee == InitFee /\ [][NextFee]_vars

\* The HTTP triggers one after the other, for transactions that verify and
\* for ones that do not, with destination calls that may fail.
InitHttp == InitWith({MaxHead - 2, MaxHead})

NextHttp ==
    \/ \E k \in OnDemandKinds :
          \E tx \in {"d1", "dRev", "dNoEv", "dNone", "b1", "bRev", "bNoEv", "bNone"} \cap
                        (TxsOf(k) \cup {"dNone", "bNone"}) :
             StartOnDemand(k, tx, HttpCalls, 1)
    \/ \E n \in DOMAIN inv : ReceiptStep(n)
    \/ \E n \in DOMAIN inv : PollStep(n)
    \/ \E n \in DOMAIN inv : SleepStep(n)
    \/ \E n \in DOMAIN inv : \E ok \in BOOLEAN : MintStep(n, ok)
    \/ \E n \in DOMAIN inv : \E ok \in BOOLEAN : WaitStep(n, ok)
    \/ \E n \in DOMAIN inv : RecordStep(n)

SpecHttp == InitHttp /\ [][NextHttp]_vars

\* Bodies of POST requests that name the transaction tx, in the forms the
\* handler tells apart.
JsonBody(key, tx) == <<"{", DQ, key, DQ, ":", DQ, tx, DQ, "}">>

BareBody(tx) == <<"{", "txHash", ":", tx, "}">>

\* Valid JSON with a txHash: as it is, between blanks, and wrapped in quotes.
WellFormedBodies(tx) ==
    {JsonBody("txHash", tx), <<SP>> \o JsonBody("txHash", tx) \o <<SP>>}

QuotedBodies(tx) == {<<SQ>> \o JsonBody("txHash", tx) \o <<SQ>>}

\* Not JSON, yet of the form txHash:0x...
LenientBodies(tx) == {BareBody(tx), <<"{", "txHash", ":", SP, tx, SP, "}">>}

\* Not JSON, of the form txHash:"0x...": the quotes stay in the hash.
BareQuotedBodies(tx) == {<<"{", "txHash", ":", DQ, tx, DQ, "}">>}

\* Bodies without a transaction hash.
HashlessBodies(tx) ==
    {<<>>, <<SP>>, <<"{", "}">>, <<"null">>, <<"garbage">>, <<SQ>>,
     JsonBody("hash", tx),
     <<"{", DQ, "txHash", DQ, ":", DQ, DQ, "}">>,
     <<"{", DQ, "txHash", DQ, ":", "null", "}">>,
     <<tx, SP, "txHash", ":">>,
     <<"{", "txHash", ":", "garbage", "}">>,
     <<"{", "hash", ":", tx, "}">>}

Bodies(tx) ==
    WellFormedBodies(tx) \cup QuotedBodies(tx) \cup LenientBodies(tx) \cup
    BareQuotedBodies(tx) \cup HashlessBodies(tx)

\* The transaction a POST of the model names in its body.
PostTx(kind) == IF kind = "deposit" THEN "d1" ELSE "b1"

\* POST requests with bodies of every form, one after the other.
InitPost == InitWith({MaxHead - 2})

NextPost ==
    \/ \E k \in OnDemandKinds : \E body \in Bodies(PostTx(k)) : HttpPost(k, body, HttpCalls, 1)
    \/ \E n \in DOMAIN inv : ReceiptStep(n)
    \/ \E n \in DOMAIN inv : PollStep(n)
    \/ \E n \in DOMAIN inv : SleepStep(n)
    \/ \E n \in DOMAIN inv : \E ok \in BOOLEAN : MintStep(n, ok)
    \/ \E n \in DOMAIN inv : \E ok \in BOOLEAN : WaitStep(n, ok)
    \/ \E n \in DOMAIN inv : RecordStep(n)

SpecPost == InitPost /\ [][NextPost]_vars

\* The block a monitor loop starts after when no cursor was saved.
StartBlocks == {MaxHead - 3}

\* The state file under kills of the process, also inside a save.
InitCrash == InitWith({MaxHead - 2})

NextCrash ==
    \/ CrashRestart(MaxCrashes)
    \/ \E n \in DOMAIN inv : CrashInSave(n, MaxCrashes)
    \/ \E k \in OnDemandKinds : \E tx \in {"d1", "d2", "b1"} \cap TxsOf(k) :
          StartOnDemand(k, tx, StoreCalls, 1)
    \/ \E n \in DOMAIN inv : ReceiptStep(n)
    \/ \E n \in DOMAIN inv : PollStep(n)
    \/ \E n \in DOMAIN inv : SleepStep(n)
    \/ \E n \in DOMAIN inv : MintStep(n, TRUE)
    \/ \E n \in DOMAIN inv : WaitStep(n, TRUE)
    \/ \E n \in DOMAIN inv : RecordStep(n)

SpecCrash == InitCrash /\ [][NextCrash]_vars

\* The state file on a disk whose writes may fail: the on-demand pipelines of
\* one process lifetime.
InitWrite == InitWith({MaxHead - 2})

NextWrite ==
    \/ \E k \in OnDemandKinds : \E tx \in {"d1", "d2", "b1"} \cap TxsOf(k) :
          StartOnDemand(k, tx, StoreCalls, 1)
    \/ \E n \in DOMAIN inv : ReceiptStep(n)
    \/ \E n \in DOMAIN inv : PollStep(n)
    \/ \E n \in DOMAIN inv : SleepStep(n)
    \/ \E n \in DOMAIN inv : MintStep(n, TRUE)
    \/ \E n \in DOMAIN inv : \E w \in WriteOutcomes : WaitStepW(n, TRUE, w)
    \/ \E n \in DOMAIN inv : \E w \in WriteOutcomes : RecordStepW(n, w)

SpecWrite == InitWrite /\ [][NextWrite]_vars

\* The cursors of the monitor loops beside the saves of the on-demand
\* pipelines, with restarts, on a disk that takes every write.
InitCursor == InitWith({MaxHead - 2})

NextCursor ==
    \/ \E c \in Chains : MineBlock(c)
    \/ CrashRestart(MaxCrashes)
    \/ \E c \in Chains : \E start \in StartBlocks : MonitorStep(c, start, "ok")
    \/ \E k \in OnDemandKinds : \E tx \in {"d1", "b1"} \cap TxsOf(k) :
          StartOnDemand(k, tx, StoreCalls, MaxInFlight)
    \/ \E n \in DOMAIN inv : ReceiptStep(n)
    \/ \E n \in DOMAIN inv : PollStep(n)
    \/ \E n \in DOMAIN inv : SleepStep(n)
    \/ \E n \in DOMAIN inv : MintStep(n, TRUE)
    \/ \E n \in DOMAIN inv : WaitStep(n, TRUE)
    \/ \E n \in DOMAIN inv : RecordStep(n)

SpecCursor == InitCursor /\ [][NextCursor]_vars

\* The service as index.js runs it: main constructs the relayer, awaits
\* initialize() and start(), and serves the HTTP triggers.  start() calls
\* neither monitorBscDeposits nor monitorUcBurns nor startWebSocketListeners.
\* The chains start empty and produce blocks; every RPC call succeeds.
InitService == InitWith({0})

\* The steps that need no request: blocks are mined, awaited calls return.
ServiceProgress ==
    \/ \E c \in Chains : MineBlock(c)
    \/ \E n \in DOMAIN inv : ReceiptStep(n)
    \/ \E n \in DOMAIN inv : PollStep(n)
    \/ \E n \in DOMAIN inv : SleepStep(n)
    \/ \E n \in DOMAIN inv : MintStep(n, TRUE)
    \/ \E n \in DOMAIN inv : WaitStep(n, TRUE)
    \/ \E n \in DOMAIN inv : RecordStep(n)

NextService ==
    \/ \E k \in OnDemandKinds : \E tx \in {"d1", "b1"} \cap TxsOf(k) :
          StartOnDemand(k, tx, HttpCalls, 1)
    \/ ServiceProgress

\* The chains keep producing blocks and every call that is awaited returns;
\* nobody is obliged to send a request.
SpecService == InitService /\ [][NextService]_vars /\ WF_vars(ServiceProgress)

\* The admin calls of the two bridge contracts, with every combination of a
\* few recipients, amounts and identifiers.
AdminUsers == {ZeroAddress, "a1", "a2"}

AdminAmounts == {0, 99, 100}

InitContract == InitWith({MaxHead})

NextContract ==
    \/ \E user \in AdminUsers : \E amount \in AdminAmounts : \E id \in {"D1", "D2"} :
          mint(user, amount, id, MaxAdminCalls)
    \/ \E user \in AdminUsers : \E amount \in AdminAmounts : \E id \in {"B1", "B2"} :
          unlock(user, amount, id, MaxAdminCalls)

SpecContract == InitContract /\ [][NextContract]_vars

\* The service under HTTP triggers with a shutdown signal at any moment;
\* after process.exit nothing of the process runs.
InitShutdown == InitWith({MaxHead - 2})

NextShutdown ==
    \/ shutdown
    \/ /\ Alive
       /\ \E k \in OnDemandKinds : \E tx \in {"d1", "b1"} \cap TxsOf(k) :
             StartOnDemand(k, tx, HttpCalls, MaxInFlight)
    \/ Alive /\ \E n \in DOMAIN inv : ReceiptStep(n)
    \/ Alive /\ \E n \in DOMAIN inv : PollStep(n)
    \/ Alive /\ \E n \in DOMAIN inv : SleepStep(n)
    \/ Alive /\ \E n \in DOMAIN inv : \E ok \in BOOLEAN : MintStep(n, ok)
    \/ Alive /\ \E n \in DOMAIN inv : \E ok \in BOOLEAN : WaitStep(n, ok)
    \/ Alive /\ \E n \in DOMAIN inv : RecordStep(n)

SpecShutdown == InitShutdown /\ [][NextShutdown]_vars

\* The BSC monitor loop on a chain that grows, with calls that fail with
\* any of the messages.
InitRate == InitWith({MaxHead - 2})

NextRate ==
    \/ MineBlock("BSC")
    \/ LaunchMonitor("BSC")
    \/ HeadStep("BSC")
    \/ \E message \in ErrorMessages : HeadFails("BSC", message, MaxErrors)
    \/ QueryStep("BSC", "ok")
    \/ \E message \in ErrorMessages : QueryFails("BSC", message, MaxErrors)
    \/ SleepDone("BSC")

SpecRate == InitRate /\ [][NextRate]_vars

\* The BSC monitor loop beside the deposit trigger, with a restart of the
\* process (after which the loop is launched again), on a chain that starts
\* empty and grows to ScanHead blocks: the blocks scanned hold events.
InitScan == InitWith({0})

NextScan ==
    \/ head["BSC"] < ScanHead /\ MineBlock("BSC")
    \/ CrashRestart(MaxCrashes)
    \/ LaunchMonitor("BSC")
    \/ HeadStep("BSC")
    \/ QueryStep("BSC", "ok")
    \/ HandlerReturned("BSC", "ok")
    \/ SleepDone("BSC")
    \/ StartOnDemand("deposit", "d1", StoreCalls, 1)
    \/ \E n \in DOMAIN inv : ReceiptStep(n)
    \/ \E n \in DOMAIN inv : PollStep(n)
    \/ \E n \in DOMAIN inv : SleepStep(n)
    \/ \E n \in DOMAIN inv : MintStep(n, TRUE)
    \/ \E n \in DOMAIN inv : WaitStep(n, TRUE)
    \/ \E n \in DOMAIN inv : RecordStep(n)

SpecScan == InitScan /\ [][NextScan]_vars

\* The watcher handlers with the event objects a block query or a listener
\* can hand them: the log the transaction has now, or the one it had before
\* the chain was reorganised.
InitDeliver == InitWith({MaxHead - 2, MaxHead})

NextDeliver ==
    \/ \E c \in Chains : MineBlock(c)
    \/ \E k \in WatcherKinds : \E tx \in {"d1", "b1"} \cap TxsOf(k) :
          \E ev \in DeliveredEvents(k, tx) :
             WatcherDispatchEv(k, tx, ev, GeneralCalls, MaxInFlight)
    \/ \E n \in DOMAIN inv : ReceiptStep(n)
    \/ \E n \in DOMAIN inv : PollStep(n)
    \/ \E n \in DOMAIN inv : SleepStep(n)
    \/ \E n \in DOMAIN inv : \E ok \in BOOLEAN : MintStep(n, ok)
    \/ \E n \in DOMAIN inv : \E ok \in BOOLEAN : WaitStep(n, ok)
    \/ \E n \in DOMAIN inv : RecordStep(n)

SpecDeliver == InitDeliver /\ [][NextDeliver]_vars

\* The verification of the on-demand pipelines applied to receipts with up
\* to MaxLogs logs: logs that do not decode, logs of other events, Deposit
\* and Burn logs.
LogPool ==
    {NoLog, TransferLog,
     DepositLog("u1", 100, "D1", "a1"), DepositLog("u2", 99, "D2", "a2"),
     BurnLog("u1", 100, "B1", "r1"), BurnLog("u2", 101, "B2", "r2")}

RECURSIVE SeqsUpTo(_, _)
SeqsUpTo(S, n) ==
    IF n = 0 THEN {<<>>}
    ELSE SeqsUpTo(S, n - 1) \cup {Append(q, x) : q \in SeqsUpTo(S, n - 1), x \in S}

Receipts ==
    {[found |-> FALSE, status |-> 0, blockNumber |-> 0, logs |-> <<>>]} \cup
    {[found |-> TRUE, status |-> st, blockNumber |-> 1, logs |-> logs] :
        st \in {0, 1}, logs \in SeqsUpTo(LogPool, MaxLogs)}

InitVerify == InitWith({MaxHead})

\* One receipt is verified in a run.
NextVerify ==
    /\ verified = NoVerification
    /\ \E kind \in OnDemandKinds : \E r \in Receipts : Verify(kind, r)

SpecVerify == InitVerify /\ [][NextVerify]_vars

\* A monitor loop, of either chain, with the handler it awaits, on chains
\* that start empty and grow to ScanHead blocks, and a call of stop() at any
\* moment.  One of the two loops is launched in a run.
InitStop == InitWith({0})

NextStop ==
    \/ \E c \in Chains : head[c] < ScanHead /\ MineBlock(c)
    \/ /\ \A d \in Chains : watch.loop[d].pc = "off"
       /\ \E c \in Chains : LaunchMonitor(c)
    \/ \E c \in Chains : HeadStep(c)
    \/ \E c \in Chains : QueryStep(c, "ok")
    \/ \E c \in Chains : HandlerReturned(c, "ok")
    \/ \E c \in Chains : SleepDone(c)
    \/ stop
    \/ \E n \in DOMAIN inv : ReceiptStep(n)
    \/ \E n \in DOMAIN inv : PollStep(n)
    \/ \E n \in DOMAIN inv : SleepStep(n)
    \/ \E n \in DOMAIN inv : MintStep(n, TRUE)
    \/ \E n \in DOMAIN inv : WaitStep(n, TRUE)
    \/ \E n \in DOMAIN inv : RecordStep(n)

SpecStop == InitStop /\ [][NextStop]_vars

\* The BSC monitor loop under rate-limit errors only, one after the other:
\* every iteration fails and rotates.
InitRotate == InitWith({MaxHead - 2})

NextRotate ==
    \/ \E c \in Chains : MineBlock(c)
    \/ LaunchMonitor("BSC")
    \/ \E message \in {{"rate limit"}, {"429"}, {"missing response"}} :
          HeadFails("BSC", message, MaxRotations)
    \/ SleepDone("BSC")

SpecRotate == InitRotate /\ [][NextRotate]_vars

\* The settings of START_BLOCK_BSC / START_BLOCK_UC the process is started
\* with: the default, and the block before the first.
StartConfigs == {"latest", "-1"}

\* The BSC monitor loop with its handler on a chain that starts empty and
\* grows to ScanHead blocks, with restarts of the process under either
\* setting, on a disk that takes every write.
InitLoad == InitWith({0})

NextLoad ==
    \/ head["BSC"] < ScanHead /\ MineBlock("BSC")
    \/ \E startBlock \in StartConfigs : RestartAt(startBlock, MaxRestarts)
    \/ LaunchMonitor("BSC")
    \/ HeadStep("BSC")
    \/ QueryStep("BSC", "ok")
    \/ HandlerReturned("BSC", "ok")
    \/ SleepDone("BSC")
    \/ \E n \in DOMAIN inv : ReceiptStep(n)
    \/ \E n \in DOMAIN inv : PollStep(n)
    \/ \E n \in DOMAIN inv : SleepStep(n)
    \/ \E n \in DOMAIN inv : MintStep(n, TRUE)
    \/ \E n \in DOMAIN inv : WaitStep(n, TRUE)
    \/ \E n \in DOMAIN inv : RecordStep(n)

SpecLoad == InitLoad /\ [][NextLoad]_vars

\* The BSC monitor loop with its handler on a chain that starts empty and
\* grows to ScanHead blocks, with destination calls that may fail.  Every
\* call that is awaited returns in the end.
InitRetry == InitWith({0})

NextRetry ==
    \/ head["BSC"] < ScanHead /\ MineBlock("BSC")
    \/ LaunchMonitor("BSC")
    \/ HeadStep("BSC")
    \/ QueryStep("BSC", "ok")
    \/ HandlerReturned("BSC", "ok")
    \/ SleepDone("BSC")
    \/ \E n \in DOMAIN inv : ReceiptStep(n)
    \/ \E n \in DOMAIN inv : PollStep(n)
    \/ \E n \in DOMAIN inv : SleepStep(n)
    \/ \E n \in DOMAIN inv : \E ok \in BOOLEAN : MintStep(n, ok)
    \/ \E n \in DOMAIN inv : \E ok \in BOOLEAN : WaitStep(n, ok)
    \/ \E n \in DOMAIN inv : RecordStep(n)

SpecRetry == InitRetry /\ [][NextRetry]_vars /\ WF_vars(NextRetry)

\* The user calls of the two bridge contracts, deposit on BSC and withdraw on
\* UC, by a few senders with a few amounts and destinations, several of them
\* in one block.
UserAmounts == {0, 100, 250}

UserDestinations == {"", "r1", "r2"}

InitUser == InitWith({MaxHead})

NextUser ==
    \/ NextBlock(MaxTimestamp)
    \/ \E sender \in {"u1", "u2"} : \E amount \in UserAmounts :
          \E destinationAddress \in UserDestinations :
             deposit(sender, amount, destinationAddress, MaxAdminCalls)
    \/ \E sender \in {"u1", "u2"} : \E amount \in UserAmounts :
          \E destinationAddress \in UserDestinations :
             withdraw(sender, amount, destinationAddress, MaxAdminCalls)

SpecUser == InitUser /\ [][NextUser]_vars

(* ------------------------------------------------------------------ *)
(* Properties                                                         *)
(* ------------------------------------------------------------------ *)

OnDemandCalls == {i \in DOMAIN destCalls : destCalls[i].kind \in OnDemandKinds}

WatcherCalls == {i \in DOMAIN destCalls : destCalls[i].kind \in WatcherKinds}

SameEvent(i, j) == destCalls[i].fn = destCalls[j].fn /\ destCalls[i].id = destCalls[j].id

\* C1: over on-demand process calls made one after the other, with the process
\* killed at any point and restarted, the destination call (mint or unlock) of
\* an eventId is submitted at most once.
C1_AtMostOnceAcrossRestarts ==
    \A i, j \in OnDemandCalls : SameEvent(i, j) => i = j

\* C2: of two process-deposit requests with the same txHash that are handled
\* concurrently and both run to their end without an error, exactly one
\* submits the mint call and the other one gets the "already processed"
\* result.
C2_DuplicateTriggerOneMint ==
    \A n \in DOMAIN inv : \A m \in inv[n].with :
        ( /\ inv[n].kind = "deposit"
          /\ inv[m].kind = "deposit"
          /\ inv[m].tx = inv[n].tx
          /\ inv[m].pc = "done" /\ inv[n].pc = "done"
          /\ inv[m].err = "" /\ inv[n].err = "" )
        => /\ {inv[m].outcome, inv[n].outcome} = {"success", "already"}
           /\ Cardinality({x \in {m, n} : inv[x].dest # 0}) = 1

\* C3: an on-demand process call made after a call with the same direction and
\* transaction hash returned success in the same process lifetime submits no
\* destination call, and it returns "already processed".
C3_SecondCallAlreadyProcessed ==
    \A n \in DOMAIN inv :
        (inv[n].kind \in OnDemandKinds /\ inv[n].prior)
        => /\ inv[n].dest = 0
           /\ (inv[n].pc = "done" /\ inv[n].outcome # "killed") => inv[n].outcome = "already"

\* C4: when a watcher handler and an on-demand trigger both process the same
\* eventId in one process lifetime, concurrently or one after the other, at
\* most one of them submits the destination call.
C4_WatcherAndTriggerAtMostOnce ==
    \A i \in WatcherCalls : \A j \in OnDemandCalls : ~SameEvent(i, j)

\* C5: in no reachable state has a destination call been submitted for an
\* eventId that the durable state does not hold as processed.
C5_MarkedBeforeSubmission ==
    \A i \in DOMAIN destCalls :
        IsProcessedIn(loadState(file), destCalls[i].kind, destCalls[i].id)

\* C6: every destination call is submitted with the most recently polled head
\* at least requiredConfirmations (6) blocks past the block of the event.
C6_NoSubmissionBelowThreshold ==
    \A i \in DOMAIN destCalls : destCalls[i].conf >= 6

\* C7: for every gross amount g and every path, fee = floor(g / 100) and
\* net = g - fee, so that net + floor(g / 100) = g, 0 <= net <= g, net = 0 for
\* g = 0 and net = g for g < 100.
C7_FeeExactness ==
    calc.kind # "none" =>
        /\ calc.fee = calc.gross \div 100
        /\ calc.net = calc.gross - calc.fee
        /\ calc.net + (calc.gross \div 100) = calc.gross
        /\ 0 <= calc.net /\ calc.net <= calc.gross
        /\ (calc.gross = 0 => calc.net = 0)
        /\ (calc.gross < 100 => calc.net = calc.gross)
        /\ (calc.gross = 100000000 => calc.fee = 1000000 /\ calc.net = 99000000)

\* C7 witness: the fee of the burn handler applied to 99 units, which leaves 99.
C7_Witness ==
    /\ calc.kind = "watchBurn"
    /\ calc.gross = 99
    /\ calc.fee = 0
    /\ calc.net = 99

\* C8: when the deposit pipeline returns success for a receipt whose log
\* carries (g, a, d), the one mint call it made carries (a, g - floor(g/100), d),
\* and at the return isDepositProcessed(d) holds and the stored record of d
\* holds the input transaction hash and the hash of the destination receipt.
C8_DepositHappyPath ==
    [][\A n \in DOMAIN inv :
          ( /\ inv[n].kind = "deposit"
            /\ inv[n].outcome # "success"
            /\ inv'[n].outcome = "success" )
          => LET e == EventOf("deposit", inv[n].tx)
                 mine == {i \in DOMAIN destCalls' : destCalls'[i].by = n}
             IN /\ mine = {inv'[n].dest}
                /\ \A i \in mine :
                      /\ destCalls'[i].fn = "mint"
                      /\ destCalls'[i].to = e.destinationAddress
                      /\ destCalls'[i].amount = e.amount - (e.amount \div 100)
                      /\ destCalls'[i].id = e.id
                      /\ (e.amount = 100000000 => destCalls'[i].amount = 99000000)
                /\ isDepositProcessed(sm'["deposit"], e.id)
                /\ \E r \in getTransactionHashes(sm'["deposit"], e.id) :
                      /\ getTransactionHashes(sm'["deposit"], e.id) = {r}
                      /\ r.type = "deposit"
                      /\ r.sourceTxHash = inv[n].tx
                      /\ r.destTxHash = inv'[n].dest
                      /\ r.destTxHash # Null
                /\ getTransactionHashes(loadState(file'), e.id)
                      = getTransactionHashes(sm'["deposit"], e.id)
      ]_vars

\* C8 witness: the deposit of 100000000 units was processed with success while
\* a second request for the same transaction was in flight, and 99000000 were
\* minted.
C8_Witness ==
    \E n \in DOMAIN inv :
        /\ inv[n].kind = "deposit"
        /\ inv[n].tx = "d1"
        /\ inv[n].outcome = "success"
        /\ inv[n].with # {}
        /\ destCalls[inv[n].dest].amount = 99000000
        /\ destCalls[inv[n].dest].to = "a1"

\* C9: within a process lifetime an id that a StateManager reports as
\* processed is still reported as processed after every later step, whatever
\* number of other ids is marked.
C9_ProcessedNeverRemoved ==
    [][epoch' = epoch =>
          \A c \in Components :
              /\ \A i \in DOMAIN sm[c].processedDeposits :
                    isDepositProcessed(sm'[c], sm[c].processedDeposits[i])
              /\ \A i \in DOMAIN sm[c].processedBurns :
                    isBurnProcessed(sm'[c], sm[c].processedBurns[i])
      ]_vars

\* An invocation that the kill hit after the mark and before the record.
KilledAfterMark(n) == inv[n].outcome = "killed" /\ inv[n].err = "record"

\* C10: for an event whose invocation was killed after the mark and before the
\* record: right after the restart the event is processed for its pipeline
\* and for the watcher, and in no later lifetime is its destination call
\* submitted again.
C10_NoResubmitAfterKill ==
    \A n \in DOMAIN inv :
        KilledAfterMark(n) =>
            LET kind == inv[n].kind
                id == destCalls[inv[n].dest].id
            IN /\ (\A m \in DOMAIN inv : inv[m].epoch <= inv[n].epoch)
                     => /\ IsProcessedIn(sm[StoreOf(kind)], kind, id)
                        /\ IsProcessedIn(sm["relayer"], kind, id)
                        /\ id \in (relayerSets.deposits \cup relayerSets.burns)
               /\ \A i \in DOMAIN destCalls :
                     (destCalls[i].fn = destCalls[inv[n].dest].fn /\ destCalls[i].id = id)
                     => destCalls[i].epoch <= inv[n].epoch

\* The errors of the destination side and of the verification of the source
\* transaction.
DestinationErrors == {"DestinationCallFailed", "DestinationTxFailed"}

VerificationErrors == {"ReceiptNotFound", "TransactionReverted", "EventNotFound"}

\* C11: after an on-demand invocation ended with a failure of the destination
\* call (the call itself or the wait for its receipt), the event counts as
\* processed: every later invocation for the same source transaction submits
\* no destination call and ends as "already processed".
C11_NoRetryAfterDestinationFailure ==
    \A n, m \in DOMAIN inv :
        ( /\ inv[n].kind \in OnDemandKinds
          /\ inv[n].pc = "done"
          /\ inv[n].err \in DestinationErrors
          /\ m > n
          /\ inv[m].kind = inv[n].kind
          /\ inv[m].tx = inv[n].tx )
        => /\ inv[m].dest = 0
           /\ (inv[m].pc = "done" /\ inv[m].outcome # "killed") => inv[m].outcome = "already"

\* C12: a failure of the destination submission and a failure of the
\* verification of the source transaction are never reported to the caller in
\* the same way: the answers of two such invocations differ.
C12_DistinctFailureOutcomes ==
    \A n, m \in DOMAIN inv :
        ( /\ inv[n].kind \in OnDemandKinds /\ inv[m].kind \in OnDemandKinds
          /\ inv[n].pc = "done" /\ inv[m].pc = "done"
          /\ inv[n].err \in DestinationErrors
          /\ inv[m].err \in VerificationErrors )
        => HttpResponse(n) # HttpResponse(m)

\* The step in which invocation n ends.
Ends(n) == inv[n].pc # "done" /\ inv'[n].pc = "done"

\* C13: an on-demand invocation whose source transaction has no receipt, a
\* receipt without success status or no log of the expected event ends with
\* the failure that names the cause (receipt not found, transaction
\* reverted, event not found), has made no destination call, and its last step
\* leaves the state file, the states in memory and the calls unchanged.
C13_VerificationFailureNoMutation ==
    [][\A n \in DOMAIN inv :
          ( /\ inv[n].kind \in OnDemandKinds
            /\ Ends(n)
            /\ VerifyError(inv[n].kind, inv[n].tx) # "" )
          => /\ inv'[n].outcome = "failed"
             /\ inv'[n].err = VerifyError(inv[n].kind, inv[n].tx)
             /\ inv'[n].dest = 0
             /\ UNCHANGED <<file, sm, relayerSets, destCalls>>
      ]_vars

\* C14: a POST to a process endpoint whose transaction has a receipt with a
\* failure status is answered with a status in 400..499 and the
\* transaction-reverted error, and nothing of the state is changed.
C14_RevertedTxAnswered400 ==
    [][\A n \in DOMAIN inv :
          ( /\ inv[n].kind \in OnDemandKinds
            /\ Ends(n)
            /\ ReceiptOf(SourceChain(inv[n].kind), inv[n].tx).found
            /\ ReceiptOf(SourceChain(inv[n].kind), inv[n].tx).status # 1 )
          => /\ HttpResponse(n)'.status \in 400..499
             /\ HttpResponse(n)'.error = "TransactionReverted"
             /\ UNCHANGED <<file, sm, relayerSets, destCalls>>
      ]_vars

ProcessedListOf(kind) ==
    IF EventName(kind) = "Deposit" THEN sm[StoreOf(kind)].processedDeposits
    ELSE sm[StoreOf(kind)].processedBurns

Arrives(n) == inv[n].pc = "idle" /\ inv'[n].pc # "idle" /\ inv'[n].body # NoBody

C17_TxHashesServedAfterSuccess ==
    \A n \in DOMAIN inv :
        ( /\ inv[n].kind \in OnDemandKinds
          /\ inv[n].outcome = "success"
          /\ inv[n].epoch = epoch )
        => LET id == destCalls[inv[n].dest].id IN
           /\ GetTxHashes(id).status = 200
           /\ \E r \in GetTxHashes(id).records :
                 /\ r.sourceTxHash = inv[n].tx
                 /\ r.destTxHash = inv[n].dest
                 /\ r \in GetAllTxHashes.records

\* C18: whatever happens to the process during a save, a state file that
\* held a complete document holds a complete document afterwards (the one
\* before or the one after the mutation): no load finds a torn file and falls
\* back to the empty state.
C18_NoTornState ==
    [][(file.exists /\ ~file.torn)
          => /\ file'.exists
             /\ ~file'.torn
             /\ loadState(file') = file'.data
      ]_vars

\* C19: when a call that changes the state of a StateManager (mark processed,
\* store tx hashes, set the last block) has returned, the state file holds the
\* state with the change.
C19_DurableOnReturn ==
    [][epoch' = epoch =>
          \A c \in Components : sm'[c] # sm[c] => loadState(file') = sm'[c]
      ]_vars

\* C20: the last scanned block of each chain in the state file never
\* decreases (no cursor counts as below every block).
C20_CursorMonotonic ==
    [][\A c \in Chains :
          LastBlockOf(loadState(file'), c) >= LastBlockOf(loadState(file), c)
      ]_vars

\* C21: once the service is initialized and started, a Deposit event mined
\* on BSC (a Burn event mined on UC) eventually leads to a mint (an unlock)
\* call for it, whether or not an HTTP request names its transaction.
C21_MinedEventEventuallyRelayed ==
    /\ [](head["BSC"] >= BlockOf("watchDeposit", "d1") =>
            <>(\E i \in DOMAIN destCalls :
                  destCalls[i].fn = "mint" /\ destCalls[i].id = EventOf("watchDeposit", "d1").id))
    /\ [](head["UC"] >= BlockOf("watchBurn", "b1") =>
            <>(\E i \in DOMAIN destCalls :
                  destCalls[i].fn = "unlock" /\ destCalls[i].id = EventOf("watchBurn", "b1").id))

\* C22: for every depositId at most one mint call carrying it succeeds on
\* the UC bridge, and for every burnId at most one unlock call carrying it
\* succeeds on the BSC bridge, whatever the other arguments of the calls.
C22_ContractRejectsSeenId ==
    \A i, j \in DOMAIN bridge.calls :
        (i < j /\ bridge.calls[i].fn = bridge.calls[j].fn) =>
            bridge.calls[i].id # bridge.calls[j].id

\* C23: on a shutdown signal an invocation in flight runs to its next
\* durable checkpoint before the process exits; in particular the process
\* never exits while a destination call is submitted and not yet recorded
\* (the invocation awaits tx.wait()).
C23_NoExitBetweenSubmitAndRecord ==
    watch.proc = "exited" =>
        \A n \in DOMAIN inv : ~(inv[n].outcome = "killed" /\ inv[n].err = "wait")

\* C24: at any time at most one destination transaction per destination
\* chain is submitted and not yet confirmed (its tx.wait() pending), over all
\* handlers that run concurrently.
C24_OneUnconfirmedPerChain ==
    \A m, n \in InFlight :
        (inv[m].pc = "wait" /\ inv[n].pc = "wait" /\ DestFn(inv[m].kind) = DestFn(inv[n].kind))
            => m = n

\* The BSC monitor loop has caught an error in this step.
CatchesBsc ==
    watch'.loop["BSC"].consecutiveErrors = watch.loop["BSC"].consecutiveErrors + 1

\* C25: every rate-limit error the BSC monitor loop catches, however many
\* came before it, rotates the endpoint pool to another endpoint; the
\* provider, the wallet and the bridge contract of the relayer are on the
\* new endpoint; the loop is still running (it sleeps, then queries again)
\* and its cursor is unchanged, so the same block is tried again.  No error
\* of any class ends the loop.
C25_RateLimitRotatesAndLoopGoesOn ==
    [][/\ (CatchesBsc /\ watch'.loop["BSC"].caught = "rateLimit") =>
             /\ watch'.currentBscRpcIndex # watch.currentBscRpcIndex
             /\ watch'.currentBscRpcIndex \in 0..(RpcCount - 1)
             /\ \A k \in DOMAIN watch'.clients :
                   watch'.clients[k] = watch'.currentBscRpcIndex
             /\ watch'.loop["BSC"].pc = "sleep"
             /\ watch'.loop["BSC"].wait = waitTime(watch'.loop["BSC"].consecutiveErrors)
             /\ watch'.loop["BSC"].lastBlock = watch.loop["BSC"].lastBlock
       /\ CatchesBsc =>
             /\ watch'.loop["BSC"].pc = "sleep"
             /\ watch'.loop["BSC"].lastBlock = watch.loop["BSC"].lastBlock
       /\ (watch.loop["BSC"].pc = "sleep" /\ watch.loop["BSC"].caught # ""
             /\ watch'.loop["BSC"] # watch.loop["BSC"]) =>
             /\ watch'.loop["BSC"].pc = "head"
             /\ watch'.loop["BSC"].lastBlock = watch.loop["BSC"].lastBlock
       /\ watch.loop["BSC"].pc # "off" => watch'.loop["BSC"].pc \notin {"off", "exited"}
      ]_vars

\* Three rate-limit errors in a row were caught.
C25_Witness ==
    /\ watch.loop["BSC"].consecutiveErrors = 3
    /\ watch.loop["BSC"].caught = "rateLimit"
    /\ watch.currentBscRpcIndex = 3
    /\ watch.clients = [bscProvider |-> 3, bscWallet |-> 3, bscBridge |-> 3]
    /\ watch.loop["BSC"].pc = "sleep"
    /\ watch.loop["BSC"].wait = 20000

\* C26: the blocks a monitor loop scans (queries, hands the events of to the
\* handler and then sets the cursor to) follow each other without a gap and
\* in increasing order, over all runs of the process: each one is the block
\* after the one scanned before.
C26_BlocksScannedInOrderNoneSkipped ==
    \A c \in Chains :
        \A i \in 1..(Len(watch.scanned[c]) - 1) :
            watch.scanned[c][i + 1] = watch.scanned[c][i] + 1

\* C27: the recipient, the amount and the event id of every destination call
\* are those of the event decoded from the logs of the receipt the path has
\* fetched, for the watcher handlers as for the HTTP triggers.
C27_ArgumentsFromFreshReceipt ==
    \A i \in DOMAIN destCalls :
        LET c == destCalls[i]
            e == EventOf(c.kind, inv[c.by].tx)
        IN /\ c.to = e.destinationAddress
           /\ c.id = e.id
           /\ c.amount = FeeOf(c.kind, e.amount).net

\* The positions of the logs of the last verified receipt that decode to the
\* expected event.
Matching ==
    {i \in DOMAIN verified.logs : verified.logs[i] # NoLog
                                    /\ verified.logs[i].name = EventName(verified.kind)}

\* C28: for a receipt that is found and has status 1, the verification of an
\* on-demand pipeline passes over the logs that fail to decode and goes on
\* with the first log, in receipt order, whose event name is the expected one
\* (Deposit or Burn); it fails with event-not-found exactly when no log that
\* decodes has that name.
C28_FirstMatchingLog ==
    (verified.kind # "none" /\ verified.found /\ verified.status = 1) =>
        /\ (verified.err = "EventNotFound") <=> (Matching = {})
        /\ Matching # {} =>
              /\ verified.err = ""
              /\ \E i \in Matching :
                    /\ \A j \in Matching : i <= j
                    /\ verified.event = verified.logs[i]

\* A receipt whose first log does not decode and which holds two Deposit
\* logs: the first of the two is taken.
C28_Witness ==
    /\ verified.kind = "deposit"
    /\ verified.found
    /\ verified.status = 1
    /\ verified.logs = <<NoLog, DepositLog("u2", 99, "D2", "a2"), DepositLog("u1", 100, "D1", "a1")>>
    /\ verified.event = DepositLog("u2", 99, "D2", "a2")

\* The cursor of a chain in the relayer's state.
CursorOf(chain) ==
    IF chain = "BSC" THEN sm["relayer"].lastBscBlock ELSE sm["relayer"].lastUcBlock

\* C29: once stop() has cleared isRunning, a monitor loop that comes to the
\* top of an iteration ends there: it starts no further iteration (no
\* getBlockNumber, no block query), so a loop that was sleeping goes
\* straight to its end; a loop ends for no other reason; and a loop that has
\* ended never moves again: its cursor, in memory and in the state, and the
\* list of the blocks it scanned stay as they are.
C29_StopEndsLoopsAtLoopTop ==
    [][\A c \in Chains :
          /\ (~watch.isRunning /\ watch'.loop[c] # watch.loop[c]) =>
                watch'.loop[c].pc # "head"
          /\ (~watch.isRunning /\ watch.loop[c].pc = "sleep"
                /\ watch'.loop[c] # watch.loop[c]) =>
                /\ watch'.loop[c].pc = "exited"
                /\ watch'.scanned[c] = watch.scanned[c]
          /\ (watch.loop[c].pc # "exited" /\ watch'.loop[c].pc = "exited") =>
                ~watch.isRunning
          /\ watch.loop[c].pc = "exited" =>
                /\ watch'.loop[c] = watch.loop[c]
                /\ watch'.scanned[c] = watch.scanned[c]
                /\ CursorOf(c)' = CursorOf(c)
      ]_vars

\* The UC loop has scanned a block and has ended after stop(), with a block
\* left on its chain that it has not scanned.
C29_Witness ==
    /\ ~watch.isRunning
    /\ watch.loop["UC"].pc = "exited"
    /\ watch.scanned["UC"] # <<>>
    /\ watch.loop["UC"].lastBlock < head["UC"]

\* C30: an error the BSC monitor loop catches whose message names neither a
\* rate limit nor a missing response nor a timeout or network failure (a
\* malformed call, a contract revert) leaves the endpoint index and the
\* clients as they are, makes the loop wait for nothing, and leaves the
\* loop: the loop does not go on to sleep and to another iteration.
C30_OtherErrorsNotRetried ==
    [][(CatchesBsc /\ watch'.loop["BSC"].caught = "other") =>
          /\ watch'.currentBscRpcIndex = watch.currentBscRpcIndex
          /\ watch'.clients = watch.clients
          /\ watch'.loop["BSC"].wait = 0
          /\ watch'.loop["BSC"].pc \notin {"sleep", "head", "query", "handle"}
      ]_vars

\* C31: getNextBscRpc() moves the index of the active endpoint on by exactly
\* one modulo the number of endpoints and returns the endpoint then active;
\* the index always lies within the endpoint list; after as many rotations
\* in a row as there are endpoints the starting endpoint is active again
\* (under rate-limit errors only, the index is the number of rotations
\* modulo the number of endpoints); and the provider created after a
\* rotation is connected to the endpoint getNextBscRpc() returned.
C31_RoundRobinRotation ==
    /\ [](/\ watch.currentBscRpcIndex \in 0..(Len(bscRpcEndpoints) - 1)
          /\ watch.currentBscRpcIndex
                = watch.loop["BSC"].consecutiveErrors % Len(bscRpcEndpoints)
          /\ watch.loop["BSC"].consecutiveErrors = Len(bscRpcEndpoints) =>
                EndpointAt(watch.currentBscRpcIndex) = EndpointAt(0))
    /\ [][CatchesBsc =>
             /\ watch'.currentBscRpcIndex
                   = (watch.currentBscRpcIndex + 1) % Len(bscRpcEndpoints)
             /\ getNextBscRpc(watch).rpc = EndpointAt(watch'.currentBscRpcIndex)
             /\ EndpointAt(watch'.clients.bscProvider) = getNextBscRpc(watch).rpc
             /\ getNextBscRpc(watch).rpc # EndpointAt(watch.currentBscRpcIndex)
         ]_vars

\* Six rotations in a row: the first endpoint is active again and the
\* provider is connected to it.
C31_Witness ==
    /\ watch.loop["BSC"].consecutiveErrors = 6
    /\ watch.loop["BSC"].caught = "rateLimit"
    /\ watch.currentBscRpcIndex = 0
    /\ EndpointAt(watch.clients.bscProvider) = "bsc-dataseed1.binance.org"

\* C32: the wait of the BSC monitor loop after a rate-limit error is
\* min(5000 * 2^(k-1), 60000) ms with k the number of iterations that have
\* failed in a row since the last iteration that ended without an error: it
\* is never above 60 s, it is twice the wait before (up to 60 s) when the
\* iteration before failed on a rate limit as well, and it is 5 s when the
\* iteration before ended without an error, whether it scanned a block or
\* found the loop caught up with the head.
C32_BackoffRestartsAfterSuccess ==
    [][(CatchesBsc /\ watch'.loop["BSC"].caught = "rateLimit") =>
          /\ watch'.loop["BSC"].wait <= 60000
          /\ watch.loop["BSC"].caught = "rateLimit" =>
                watch'.loop["BSC"].wait = Min(2 * waitTime(watch.loop["BSC"].consecutiveErrors), 60000)
          /\ watch.loop["BSC"].caught = "" => watch'.loop["BSC"].wait = 5000
      ]_vars

\* A step of the monitor loop of a chain.
LoopStep(chain) ==
    \/ HeadStep(chain)
    \/ QueryStep(chain, "ok")
    \/ HandlerReturned(chain, "ok")
    \/ SleepDone(chain)

\* C33: while an event that the monitor loop has handed to its handler is
\* waiting for the receipt of its destination transaction, the loop of the
\* same chain is not held up by it: the loop has a step to take (towards the
\* scan of the following block).
C33_LoopNotHeldUpByHandler ==
    \A c \in Chains :
        (/\ watch.loop[c].pc # "off"
         /\ NoSyncSection
         /\ \E n \in InFlight : inv[n].kind = WatcherKindOf(c) /\ inv[n].pc = "wait")
            => ENABLED LoopStep(c)

\* The elements of a list.
Elements(list) == {list[i] : i \in DOMAIN list}

\* C34: at a start of the process, the state loaded is the fresh empty state
\* when there is no state file, and otherwise the state of the last save (on
\* a disk that takes every write, the document in the file): the processed
\* ids of both directions, the tx-hash records and both cursors the relayer
\* goes on with are those saved, also when the cursor saved is block 0.
C34_LoadReturnsLastSave ==
    [][epoch' = epoch + 1 =>
          IF ~file.exists
          THEN sm'["relayer"] = FreshState
          ELSE /\ sm'["relayer"] = file.data
               /\ relayerSets'.deposits = Elements(file.data.processedDeposits)
               /\ relayerSets'.burns = Elements(file.data.processedBurns)
               /\ \A c \in Chains :
                     LastBlockOf(file.data, c) # Null =>
                        watch'.loop[c].lastBlock = LastBlockOf(file.data, c)
      ]_vars

\* C35: a processed id or a tx-hash record that is in the state file stays
\* in it through every later save, whichever component makes it: no save
\* puts an older copy of the state over it.
C35_SavesKeepOthersRecords ==
    [][/\ Elements(file.data.processedDeposits) \subseteq Elements(file'.data.processedDeposits)
       /\ Elements(file.data.processedBurns) \subseteq Elements(file'.data.processedBurns)
       /\ {r.id : r \in file.data.transactionHashes}
             \subseteq {r.id : r \in file'.data.transactionHashes}
      ]_vars

\* The destination calls whose receipt the relayer has seen (tx.wait()
\* resolved), by their position in the order of submission: the invocation
\* that made the call has gone on to mark and record the event.
ConfirmedCalls ==
    {i \in DOMAIN destCalls :
        LET n == destCalls[i].by IN
        /\ inv[n].dest = i
        /\ \/ inv[n].pc = "record"
           \/ inv[n].pc = "done" /\ inv[n].err \in {"", "record"}}

\* C36: with the replay guard of the destination contract taken into
\* account, at most one mint / unlock succeeds on-chain for a source event
\* (the event of one source transaction), however often and by whichever
\* path the relayer submits it: the calls for one source transaction that are
\* confirmed all carry the same (recipient, net amount, eventId), which the
\* contract accepts once.
C36_OneAcceptedCallPerEvent ==
    \A i, j \in ConfirmedCalls :
        (/\ destCalls[i].fn = destCalls[j].fn
         /\ inv[destCalls[i].by].tx = inv[destCalls[j].by].tx)
            => PackedId(destCalls[i].to, destCalls[i].amount, destCalls[i].id)
                  = PackedId(destCalls[j].to, destCalls[j].amount, destCalls[j].id)

\* The handling of an event by a watcher handler has ended in a failure.
FailedHandling(n) ==
    /\ inv[n].kind \in WatcherKinds
    /\ inv[n].pc = "done"
    /\ inv[n].err # ""

\* The event an invocation handled is marked processed in the relayer's
\* state, or a later invocation has taken up its transaction.
SettledOrRetried(n) ==
    \/ IsProcessedIn(sm["relayer"], inv[n].kind, inv[n].ev.id)
    \/ \E m \in DOMAIN inv : m > n /\ inv[m].pc # "idle" /\ inv[m].tx = inv[n].tx

\* C37: an event of a scanned block whose handling by the watcher ended in
\* a failure is in the end marked processed or attempted again: the cursor
\* does not leave it behind for good.
C37_FailedEventRetried ==
    \A n \in 1..MaxCalls : [](FailedHandling(n) => <>SettledOrRetried(n))

\* The UC transaction whose receipt is like the one of a BSC transaction: a
\* receipt with the event, a reverted one, one without the event, none.
MirrorTx(tx) ==
    CASE tx = "d1" -> "b1"
      [] tx = "dRev" -> "bRev"
      [] tx = "dNoEv" -> "bNoEv"
      [] tx = "dNone" -> "bNone"
      [] OTHER -> ""

\* C38: an on-demand deposit and an on-demand withdrawal that have ended on
\* inputs that correspond (receipts alike, both or neither already
\* processed, the same failure or none on the way) end alike: neither
\* pipeline throws, both return a result of the same kind, and the HTTP
\* layer answers both with the same status code.
C38_PipelinesMirrorEachOther ==
    \A m, n \in DOMAIN inv :
        (/\ inv[m].kind = "deposit" /\ inv[n].kind = "withdrawal"
         /\ inv[m].pc = "done" /\ inv[n].pc = "done"
         /\ inv[m].outcome \notin {"killed", "rejected"}
         /\ inv[n].outcome \notin {"killed", "rejected"}
         /\ MirrorTx(inv[m].tx) = inv[n].tx
         /\ inv[m].err = inv[n].err
         /\ (inv[m].outcome = "already") <=> (inv[n].outcome = "already"))
            => /\ inv[m].outcome # "threw"
               /\ inv[n].outcome # "threw"
               /\ inv[m].outcome = inv[n].outcome
               /\ HttpResponse(m).status = HttpResponse(n).status

\* The unlock calls the withdrawal pipeline makes when it is given the Burn
\* events one after the other: an event whose burnId is already marked
\* processed gets none.
RECURSIVE UnlocksFor(_, _)
UnlocksFor(events, st) ==
    IF events = <<>> THEN 0
    ELSE IF Head(events).name # "Burn" THEN UnlocksFor(Tail(events), st)
    ELSE IF isBurnProcessed(st, Head(events).id) THEN UnlocksFor(Tail(events), st)
    ELSE 1 + UnlocksFor(Tail(events), addProcessedBurn(st, Head(events).id))

\* C39: every withdraw call the UC bridge accepts emits a Burn event whose
\* burnId is the burnId of no earlier Burn event, so the relayer takes no
\* burn for one it has processed and makes one unlock for each burn.
C39_BurnIdsUnique ==
    /\ \A i, j \in DOMAIN bridge.events :
          (i < j /\ bridge.events[i].name = "Burn" /\ bridge.events[j].name = "Burn")
             => bridge.events[i].id # bridge.events[j].id
    /\ UnlocksFor(bridge.events, FreshState)
          = Cardinality({i \in DOMAIN bridge.events : bridge.events[i].name = "Burn"})

\* The same for the Deposit events of the BSC bridge, which holds.
DepositIdsUnique ==
    \A i, j \in DOMAIN bridge.events :
        (i < j /\ bridge.events[i].name = "Deposit" /\ bridge.events[j].name = "Deposit")
           => bridge.events[i].id # bridge.events[j].id

====
